---- MODULE Spec2Model ----
(***************************************************************************)
(* Model of the GitHub repository harvesters of this repository            *)
(* (src/firebase/firebase_repo_search.py and its trae / windsurf           *)
(* variants): the result aggregator (_add_repository over the two scopes   *)
(* repos and current_search_repos), the paginating, rate-governed request  *)
(* executor (_make_request, _check_rate_limit), the driver (main), the     *)
(* catalog writers (_save_search_results, save_results) and the CSV merger *)
(* of src/cursor/merge_csv_files.py (process_csv_files).                   *)
(*                                                                         *)
(* Strings that the code inspects (found_by and the provenance tags) are   *)
(* sequences of string fragments, so that Python's substring test          *)
(* `tag in found_by` and the ", " join are computed, not assumed.          *)
(***************************************************************************)
EXTENDS Integers, Sequences, FiniteSets, TLC

(***************************************************************************)
(* Bounds of the model.                                                    *)
(***************************************************************************)
\* number of _add_repository calls explored by the aggregator harness
MaxCalls == 4

\* rate-limit stalls (exhausted-quota responses and 403s) the API may inflict
MaxStalls == 1

\* items the API holds for the queries of one run, all queries together
MaxHits == 2

\* search_* calls explored by the search-method harness
MaxSearches == 2

\* _add_repository calls explored before and between the catalog writes
MaxAdds == 3

\* CSV files process_csv_files finds, and rows it reads from them in all
MaxFiles == 2

MaxRows == 3

\* the clock (seconds) when a _make_request call begins
StartTime == 100

\* how far ahead / behind of the clock a reported X-RateLimit-Reset lies
ResetAhead == 5

ResetBehind == 3

(***************************************************************************)
(* Program constants.                                                      *)
(***************************************************************************)
\* self.per_page
per_page == 100

\* self.max_results
max_results == 1000

\* the "+ 10" of both wait_time computations
safety_margin == 10

\* time.sleep(1) between two pages
page_delay == 1

(***************************************************************************)
(* Input alphabets.                                                        *)
(***************************************************************************)
\* repository identities (full_name), as owner "/" name
Widget == <<"acme", "/", "widget">>

Gizmo == <<"acme", "/", "gizmo">>

Names == {Widget, Gizmo}

\* provenance tags of the aggregator harness; "a" and "b" are substrings of "ab"
Tags == {<<"a">>, <<"b">>, <<"a", "b">>}

\* Python's None (a JSON null)
None == "None"

\* two html_url values per repository
Url1(name) == <<"https:", "/", "/", "github.com", "/">> \o name

Url2(name) == <<"http:", "/", "/", "github.com", "/">> \o name

\* the dicts the search API returns for a repository: with a description,
\* with a null description, and without the description key
RepoDicts ==
    {[full_name |-> Widget, html_url |-> Url1(Widget), description |-> "d1"],
     [full_name |-> Widget, html_url |-> Url2(Widget), description |-> "d2"],
     [full_name |-> Gizmo, html_url |-> Url1(Gizmo)],
     [full_name |-> Gizmo, html_url |-> Url2(Gizmo), description |-> None]}

\* code-search items nest the repository under the key 'repository'
RawItems == RepoDicts \cup {[repository |-> r] : r \in RepoDicts}

NoCall == [kind |-> "none"]

NoApi == [total |-> 0, size |-> 0, avail |-> 0, headers |-> "none"]

NoResult == [kind |-> "none"]

NoReq == [page |-> 0, at |-> 0, quiet |-> 0]

NoResp == [status |-> 0, headers |-> << >>]

NoPos == [pass |-> 0, kw |-> 0, inner |-> 0]

NoWalk == [ranges |-> "none", window |-> 0, day |-> <<0, 0, 0>>]

NoFile == [writer |-> "none"]

NoMerger == [pc |-> "none"]

\* filter_csv_by_keywords is not running
NoFilter == [pc |-> "none"]

VARIABLES
    current_search_repos,  \* self.current_search_repos: full_name -> record
    repos,                 \* self.repos: full_name -> record
    shared,                \* names whose record is ONE dict object held by both scopes
    ncalls,                \* history: number of _add_repository calls made
    lastCall,              \* history: arguments of the latest _add_repository call
    applied,               \* history: tags passed to _add_repository, per name
    pc,                    \* where control is
    api,                   \* the endpoint the current query talks to
    page,                  \* _make_request: page
    all_items,             \* _make_request: all_items, as the chunks appended
    total_count,           \* _make_request: total_count
    result,                \* the dict _make_request returned
    now,                   \* int(time.time())
    stalls,                \* history: rate-limit stalls so far
    nreq,                  \* history: requests.get calls of this call
    lastReq,               \* history: the latest requests.get
    lastResp,              \* history: the answer to it
    quietUntil,            \* history: end of the stall the latest exhausted quota asks for
    token,                 \* main: os.getenv('GITHUB_TOKEN') is set
    pos,                   \* main: the pass and the loop indices of the current query
    cursor,                \* search_*: index of the next item of data['items']
    started,               \* history: the queries started, in order
    flushes,               \* history: the search_type of every _save_search_results call
    saved,                 \* history: number of save_results calls
    served,                \* history: items the API has held for the queries so far
    aborts,                \* history: the kinds of failure that have ended a query
    walk,                  \* the time_ranges loop: the list, the window and a day in it
    csvfile,               \* the file the catalog writer wrote last
    merger,                \* process_csv_files: its locals and where it stands
    filt                   \* filter_csv_by_keywords: the statistics pass over the filtered rows

aggVars == <<current_search_repos, repos, shared, ncalls, lastCall, applied>>

reqVars == <<pc, api, page, all_items, total_count, result, now, stalls, nreq,
             lastReq, lastResp, quietUntil>>

reqVars_but_pc == <<api, page, all_items, total_count, result, now, stalls, nreq,
                    lastReq, lastResp, quietUntil>>

drvVars == <<token, pos, cursor, started, flushes, saved, served, aborts>>

vars == <<current_search_repos, repos, shared, ncalls, lastCall, applied,
          pc, api, page, all_items, total_count, result, now, stalls, nreq,
          lastReq, lastResp, quietUntil,
          token, pos, cursor, started, flushes, saved, served, aborts, walk,
          csvfile, merger, filt>>

(***************************************************************************)
(* String helpers.                                                         *)
(***************************************************************************)
\* Python: t in s   (substring test on strings)
Contains(s, t) ==
    \E i \in 1..(Len(s) - Len(t) + 1) : SubSeq(s, i, i + Len(t) - 1) = t

\* Python: f", {found_by}"
Sep == <<",", " ">>

\* Python: s.split(sep) as a sequence of components
RECURSIVE SplitOn(_, _)
SplitOn(s, sep) ==
    LET n == Len(sep)
        hits == {k \in 1..(Len(s) - n + 1) : SubSeq(s, k, k + n - 1) = sep}
    IN  IF hits = {} THEN <<s>>
        ELSE LET i == CHOOSE k \in hits : \A j \in hits : k <= j
             IN  <<SubSeq(s, 1, i - 1)>> \o SplitOn(SubSeq(s, i + n, Len(s)), sep)

\* found_by.split(", ")
Split(s) == SplitOn(s, Sep)

\* the provenance set of a found_by string
TagSet(s) == {Split(s)[i] : i \in 1..Len(Split(s))}

\* how many components of found_by equal the tag
Occurrences(s, t) == Cardinality({i \in 1..Len(Split(s)) : Split(s)[i] = t})

(***************************************************************************)
(* Result aggregator: GitHubSearch._add_repository                         *)
(***************************************************************************)
\* lines 88-93: code-search items carry the repository under 'repository'
Unwrap(repo_data) ==
    IF "repository" \in DOMAIN repo_data THEN repo_data.repository ELSE repo_data

\* line 98: repo.get('description', 'No description')
GetDescription(repo) ==
    IF "description" \in DOMAIN repo THEN repo.description ELSE "No description"

\* lines 96-100: the dict built for this call
RepoInfo(repo_data, found_by) ==
    [url |-> Unwrap(repo_data).html_url,
     description |-> GetDescription(Unwrap(repo_data)),
     found_by |-> found_by]

\* lines 107-108 / 114-115: found_by grows unless the tag is a substring of it
AppendTag(rec, found_by) ==
    IF ~Contains(rec.found_by, found_by)
    THEN [rec EXCEPT !.found_by = @ \o Sep \o found_by]
    ELSE rec

\* d[k] = v on a Python dict
Put(d, k, v) == [x \in (DOMAIN d) \cup {k} |-> IF x = k THEN v ELSE d[x]]

\* lines 102-108: the batch scope after the first half of the call
CurAfterBatchHalf(cur, name, info, found_by, is_current_search) ==
    IF ~is_current_search THEN cur
    ELSE IF name \notin DOMAIN cur THEN Put(cur, name, info)
    ELSE Put(cur, name, AppendTag(cur[name], found_by))

\* the global scope after the first half: a += on a dict object that both
\* scopes hold is seen through both
GlobAfterBatchHalf(cur1, glob, sh, name) ==
    IF name \in sh THEN Put(glob, name, cur1[name]) ELSE glob

\* a merge that overwrites the stored url and description with the incoming ones
GlobAfterGlobalHalf_Overwrite(glob1, name, info, found_by) ==
    IF name \notin DOMAIN glob1 THEN Put(glob1, name, info)
    ELSE Put(glob1, name,
             [info EXCEPT !.found_by = AppendTag(glob1[name], found_by).found_by])

\* lines 110-115: the global scope after the second half of the call
GlobAfterGlobalHalf(glob1, name, info, found_by) ==
    IF name \notin DOMAIN glob1 THEN Put(glob1, name, info)
    ELSE Put(glob1, name, AppendTag(glob1[name], found_by))

\* the batch scope after the second half (aliasing again)
CurAfterGlobalHalf(cur1, glob2, sh, name) ==
    IF name \in sh THEN Put(cur1, name, glob2[name]) ELSE cur1

\* names whose dict object is held by both scopes after the call: repo_info is
\* stored in both exactly when the name was new to both (lines 105 and 112)
SharedAfter(cur, glob, sh, name, is_current_search) ==
    IF is_current_search /\ name \notin DOMAIN cur /\ name \notin DOMAIN glob
    THEN sh \cup {name}
    ELSE sh

add_repository(repo_data, found_by, is_current_search) ==
    LET name  == Unwrap(repo_data).full_name
        info  == RepoInfo(repo_data, found_by)
        cur1  == CurAfterBatchHalf(current_search_repos, name, info, found_by,
                                   is_current_search)
        glob1 == GlobAfterBatchHalf(cur1, repos, shared, name)
        glob2 == GlobAfterGlobalHalf(glob1, name, info, found_by)
        cur2  == CurAfterGlobalHalf(cur1, glob2, shared, name)
    IN  /\ current_search_repos' = cur2
        /\ repos' = glob2
        /\ shared' = SharedAfter(current_search_repos, repos, shared, name,
                                 is_current_search)
        /\ ncalls' = ncalls + 1
        /\ lastCall' = [kind |-> "add", name |-> name, url |-> info.url,
                        description |-> info.description, found_by |-> found_by,
                        is_current_search |-> is_current_search]
        /\ applied' = [applied EXCEPT ![name] = @ \cup {found_by}]

\* a clear that takes the records held by both scopes out of the global one
ClearCurrent_DropsShared ==
    /\ current_search_repos' = << >>
    /\ repos' = [n \in DOMAIN repos \ shared |-> repos[n]]
    /\ shared' = {}
    /\ lastCall' = NoCall
    /\ UNCHANGED <<ncalls, applied>>

\* a clear that empties the global scope as well
ClearCurrent_Both ==
    /\ current_search_repos' = << >>
    /\ repos' = << >>
    /\ shared' = {}
    /\ lastCall' = NoCall
    /\ UNCHANGED <<ncalls, applied>>

\* main: searcher.current_search_repos.clear()
ClearCurrent ==
    /\ current_search_repos' = << >>
    /\ shared' = {}
    /\ lastCall' = NoCall
    /\ UNCHANGED <<repos, ncalls, applied>>

(***************************************************************************)
(* Aggregator harness: any sequence of merges (batch-tracked or            *)
(* global-only) and batch clears on a freshly constructed GitHubSearch.    *)
(***************************************************************************)
\* GitHubSearch.__init__: both scopes empty
InitScopes ==
    /\ current_search_repos = << >>
    /\ repos = << >>
    /\ shared = {}
    /\ ncalls = 0
    /\ lastCall = NoCall
    /\ applied = [n \in Names |-> {}]

\* no _make_request call is in progress
InitNoRequest ==
    /\ pc = "idle"
    /\ api = NoApi
    /\ page = 1
    /\ all_items = << >>
    /\ total_count = 0
    /\ result = NoResult
    /\ now = StartTime
    /\ stalls = 0
    /\ nreq = 0
    /\ lastReq = NoReq
    /\ lastResp = NoResp
    /\ quietUntil = 0

\* main is not running
InitNoDriver ==
    /\ token = TRUE
    /\ pos = NoPos
    /\ cursor = 0
    /\ started = << >>
    /\ flushes = << >>
    /\ saved = 0
    /\ served = 0
    /\ aborts = {}

\* no time_ranges loop is being followed
InitNoWalk == walk = NoWalk

InitNoFile == csvfile = NoFile

InitNoMerger == merger = NoMerger

InitNoFilter == filt = NoFilter

InitAgg == InitScopes /\ InitNoRequest /\ InitNoDriver /\ InitNoWalk
    /\ InitNoFile /\ InitNoMerger /\ InitNoFilter

AddRepository ==
    /\ ncalls < MaxCalls
    /\ \E repo_data \in RawItems, found_by \in Tags, is_current_search \in BOOLEAN :
          add_repository(repo_data, found_by, is_current_search)
    /\ UNCHANGED <<walk, filt, csvfile, merger, reqVars, drvVars>>

Clear ==
    /\ current_search_repos # << >>
    /\ ClearCurrent
    /\ UNCHANGED <<walk, filt, csvfile, merger, reqVars, drvVars>>

NextAgg == AddRepository \/ Clear

SpecAgg == InitAgg /\ [][NextAgg]_vars

(***************************************************************************)
(* Rate-governed request executor: _check_rate_limit and _make_request     *)
(***************************************************************************)
Min(a, b) == IF a <= b THEN a ELSE b

Max(a, b) == IF a >= b THEN a ELSE b

\* Python: d.get(k, default)
Get(d, k, default) == IF k \in DOMAIN d THEN d[k] ELSE default

\* len(all_items): all_items is kept as the chunks appended, one per page
RECURSIVE Count(_)
Count(chunks) ==
    IF chunks = << >> THEN 0 ELSE Head(chunks).n + Count(Tail(chunks))

\* the search API: it reports `total` as total_count, holds `avail` items and
\* serves them in consecutive pages of `size` items, the last one shorter
PageSize(a, k) == Max(0, Min(a.size, a.avail - (k - 1) * a.size))

\* the response headers an API may send at time t: each rate-limit header
\* may be missing; the reset time may lie ahead of the clock or behind it
AllHeaders(t) ==
    {rem @@ rst :
        rem \in {<< >>} \cup {("X-RateLimit-Remaining" :> r) : r \in {1, 2}},
        rst \in {<< >>} \cup {("X-RateLimit-Reset" :> x) :
                                  x \in {t - ResetBehind, t + ResetAhead}}}

\* an API that always sends both headers, with the reset time ahead
FewHeaders(t) ==
    {("X-RateLimit-Remaining" :> r) @@ ("X-RateLimit-Reset" :> t + ResetAhead) :
        r \in {1, 2}}

Headers(t) == IF api.headers = "all" THEN AllHeaders(t) ELSE FewHeaders(t)

\* HTTP statuses for which response.raise_for_status() raises HTTPError
ErrorStatuses == {403, 429}

\* _check_rate_limit, line 29: rate_limit_remaining <= 1
RateLimited(headers) == Get(headers, "X-RateLimit-Remaining", 0) <= 1

\* a wait computed without the floor at zero
WaitTime_Signed(headers, t) ==
    Get(headers, "X-RateLimit-Reset", 0) - t + safety_margin

\* lines 30 and 72: max(reset - int(time.time()), 0) + 10
WaitTime(headers, t) ==
    Max(Get(headers, "X-RateLimit-Reset", 0) - t, 0) + safety_margin

\* the stall a response asks for: one that reports remaining quota <= 1 and a
\* reset time R wants no request before R plus the safety margin
QuietAfter(headers, quiet) ==
    IF /\ "X-RateLimit-Remaining" \in DOMAIN headers
       /\ headers["X-RateLimit-Remaining"] <= 1
       /\ "X-RateLimit-Reset" \in DOMAIN headers
    THEN Max(quiet, headers["X-RateLimit-Reset"] + safety_margin)
    ELSE quiet

\* a stall that has run out by time t asks for nothing any more
Pending(quiet, t) == IF quiet <= t THEN 0 ELSE quiet

\* lines 38-40: the locals of a fresh _make_request call
EnterMakeRequest ==
    /\ page' = 1
    /\ all_items' = << >>
    /\ total_count' = 0
    /\ result' = NoResult
    /\ nreq' = 0

\* line 46: requests.get(url, headers=self.headers, params=params)
IssueRequest(status, headers) ==
    /\ nreq' = nreq + 1
    /\ lastReq' = [page |-> page, at |-> now, quiet |-> quietUntil]
    /\ lastResp' = [status |-> status, headers |-> headers]
    /\ quietUntil' = QuietAfter(headers, quietUntil)

\* break, then line 83: return {'items': all_items, 'total_count': total_count}
BreakAndReturn(items, count) ==
    /\ pc' = "returned"
    /\ all_items' = items
    /\ total_count' = count
    /\ result' = [kind |-> "dict", items |-> items, total_count |-> count]
    /\ UNCHANGED <<page, now>>

\* line 52: total_count is read on page 1 only
CountAfter(pg, reported, count) == IF pg = 1 THEN reported ELSE count

\* the stop test with > in place of >=
Fetched_Strict(items, count) == Count(items) > Min(count, max_results)

\* line 63: len(all_items) >= min(total_count, self.max_results)
Fetched(items, count) == Count(items) >= Min(count, max_results)

\* a loop that asks for the next page at once
ProcessPage_NoDelay(n) ==
    LET count == CountAfter(page, api.total, total_count)
        items == Append(all_items, [page |-> page, n |-> n])
    IN  IF n = 0 THEN BreakAndReturn(all_items, count)
        ELSE IF Fetched(items, count) THEN BreakAndReturn(items, count)
        ELSE /\ all_items' = items
             /\ total_count' = count
             /\ page' = page + 1
             /\ now' = now
             /\ UNCHANGED <<pc, result>>

\* lines 50-68: a page of a 200 response whose quota is not exhausted
ProcessPage(n) ==
    LET count == CountAfter(page, api.total, total_count)
        items == Append(all_items, [page |-> page, n |-> n])
    IN  IF n = 0 THEN BreakAndReturn(all_items, count)
        ELSE IF Fetched(items, count) THEN BreakAndReturn(items, count)
        ELSE /\ all_items' = items
             /\ total_count' = count
             /\ page' = page + 1
             /\ now' = now + page_delay
             /\ UNCHANGED <<pc, result>>

\* a stall after which the loop moves on to the next page
Stall_SkipsPage(wait_time) ==
    /\ now' = now + wait_time
    /\ stalls' = stalls + 1
    /\ page' = page + 1
    /\ UNCHANGED <<pc, all_items, total_count, result>>

\* time.sleep(wait_time), and the loop runs again with the same locals
Stall(wait_time) ==
    /\ now' = now + wait_time
    /\ stalls' = stalls + 1
    /\ UNCHANGED <<pc, page, all_items, total_count, result>>

\* a 200 response with quota left: lines 46-68
Fetch200Page ==
    /\ pc = "loop"
    /\ \E headers \in Headers(now) :
          /\ ~RateLimited(headers)
          /\ IssueRequest(200, headers)
    /\ ProcessPage(PageSize(api, page))
    /\ UNCHANGED <<walk, filt, csvfile, merger, aggVars, drvVars, api, stalls>>

\* an executor that reads the body of an exhausted response before it stalls
Fetch200Exhausted_UsesBody ==
    /\ pc = "loop"
    /\ stalls < MaxStalls
    /\ \E headers \in Headers(now) :
          /\ RateLimited(headers)
          /\ IssueRequest(200, headers)
          /\ now' = now + WaitTime(headers, now)
    /\ stalls' = stalls + 1
    /\ all_items' = IF PageSize(api, page) > 0
                    THEN Append(all_items, [page |-> page, n |-> PageSize(api, page)])
                    ELSE all_items
    /\ total_count' = CountAfter(page, api.total, total_count)
    /\ UNCHANGED <<pc, page, result>>
    /\ UNCHANGED <<walk, filt, csvfile, merger, aggVars, drvVars, api>>

\* a 200 response whose quota is exhausted: _check_rate_limit sleeps and
\* returns True, the body is not read
Fetch200Exhausted ==
    /\ pc = "loop"
    /\ stalls < MaxStalls
    /\ \E headers \in Headers(now) :
          /\ RateLimited(headers)
          /\ IssueRequest(200, headers)
          /\ Stall(WaitTime(headers, now))
    /\ UNCHANGED <<walk, filt, csvfile, merger, aggVars, drvVars, api>>

\* a 403 handled like the other HTTP errors: break
Fetch403_Abort ==
    /\ pc = "loop"
    /\ \E headers \in Headers(now) : IssueRequest(403, headers)
    /\ BreakAndReturn(all_items, total_count)
    /\ UNCHANGED <<walk, filt, csvfile, merger, aggVars, drvVars, api, stalls>>

\* lines 70-75: HTTPError with status 403: sleep and continue
Fetch403 ==
    /\ pc = "loop"
    /\ stalls < MaxStalls
    /\ \E headers \in Headers(now) :
          /\ IssueRequest(403, headers)
          /\ Stall(WaitTime(headers, now))
    /\ UNCHANGED <<walk, filt, csvfile, merger, aggVars, drvVars, api>>

\* lines 76-78: any other HTTPError: break
FetchHttpError ==
    /\ pc = "loop"
    /\ \E status \in ErrorStatuses \ {403}, headers \in Headers(now) :
          IssueRequest(status, headers)
    /\ BreakAndReturn(all_items, total_count)
    /\ UNCHANGED <<walk, filt, csvfile, merger, aggVars, drvVars, api, stalls>>

\* an executor that drops the batch collected so far when the transport fails
FetchTransportError_DropsBatch ==
    /\ pc = "loop"
    /\ nreq' = nreq + 1
    /\ lastReq' = [page |-> page, at |-> now, quiet |-> quietUntil]
    /\ lastResp' = [status |-> -1, headers |-> << >>]
    /\ BreakAndReturn(all_items, total_count)
    /\ ClearCurrent
    /\ UNCHANGED <<walk, filt, csvfile, merger, drvVars, api, stalls, quietUntil>>

\* lines 79-81: RequestException (timeout, connection error): break
FetchTransportError ==
    /\ pc = "loop"
    /\ nreq' = nreq + 1
    /\ lastReq' = [page |-> page, at |-> now, quiet |-> quietUntil]
    /\ lastResp' = [status |-> -1, headers |-> << >>]
    /\ BreakAndReturn(all_items, total_count)
    /\ UNCHANGED <<walk, filt, csvfile, merger, aggVars, drvVars, api, stalls, quietUntil>>

(***************************************************************************)
(* Executor harness: one _make_request call against an endpoint drawn from *)
(* Endpoints, with every interleaving of stalls and errors.                *)
(***************************************************************************)
\* reported total_count values and page sizes (<= per_page) of the endpoints
Totals == {0, 1, 100, 250, 1000, 1001, 2500}

Sizes == {30, 70, 100}

\* endpoints that hold exactly the items they report, and two that do not
Endpoints ==
    {[total |-> t, size |-> p, avail |-> t, headers |-> "all"] :
        t \in Totals, p \in Sizes}
    \cup {[total |-> 5, size |-> 100, avail |-> 250, headers |-> "all"],
          [total |-> 2500, size |-> 30, avail |-> 60, headers |-> "all"]}

InitReq ==
    /\ InitScopes
    /\ InitNoDriver
    /\ pc = "loop"
    /\ api \in Endpoints
    /\ page = 1
    /\ all_items = << >>
    /\ total_count = 0
    /\ result = NoResult
    /\ now = StartTime
    /\ stalls = 0
    /\ nreq = 0
    /\ lastReq = NoReq
    /\ lastResp = NoResp
    /\ quietUntil = 0
    /\ InitNoWalk
    /\ InitNoFile /\ InitNoFilter
    /\ InitNoMerger

NextReq ==
    \/ Fetch200Page
    \/ Fetch200Exhausted
    \/ Fetch403
    \/ FetchHttpError
    \/ FetchTransportError

SpecReq == InitReq /\ [][NextReq]_vars

(***************************************************************************)
(* Driver: main of firebase_repo_search.py and the search_* methods        *)
(***************************************************************************)
\* the passes of main, by the search_type each one is saved under
Passes == <<"repo_descriptions", "code_keywords", "commit_messages",
            "issues_and_prs", "firebase_files">>

\* main, lines 351-366: the first keywords of the list of 14
firebase_keywords == <<"generated by Firebase", "edited using Firebase">>

\* search_issues and search_repositories_by_description: the first windows of
\* the list of 24
time_ranges == <<<<"2023-07-01", "2023-07-31">>, <<"2023-08-01", "2023-08-31">>>>

\* windsurf search_repositories_by_description: the first windows of its list
windsurf_time_ranges ==
    <<<<"2024-11-01", "2024-11-30">>, <<"2024-12-01", "2024-12-31">>>>

\* main, lines 369-372
sort_orders == <<[sort |-> "indexed", order |-> "desc"],
                 [sort |-> "indexed", order |-> "asc"]>>

\* search_firebase_files, lines 294-298
firebase_files == <<"path:.idx/dev.nix", "path:.idx/airules.md", "path:.aiexclude">>

\* iterations of main's keyword loop in a pass (one call where main has none);
\* pass 6 is the one pass of the windsurf main
KwCount(p) == IF p \in {2, 3, 4} THEN Len(firebase_keywords) ELSE 1

\* queries one search_* call makes: windows, sort orders, files
InnerCount(p) ==
    CASE p = 1 -> Len(time_ranges)
      [] p = 2 -> Len(sort_orders)
      [] p = 3 -> 1
      [] p = 4 -> Len(time_ranges)
      [] p = 5 -> Len(firebase_files)
      [] p = 6 -> Len(windsurf_time_ranges)

FirstPos(p) == [pass |-> p, kw |-> 1, inner |-> 1]

\* the queries of pass p as the nested for loops of main and of the search_*
\* methods enumerate them: keywords outermost, windows/sort orders/files inside
PlanOfPass(p) ==
    [i \in 1..(KwCount(p) * InnerCount(p)) |->
        [pass |-> p,
         kw |-> ((i - 1) \div InnerCount(p)) + 1,
         inner |-> ((i - 1) % InnerCount(p)) + 1]]

\* every query of a run, in the order main's statements reach them
Plan ==
    PlanOfPass(1) \o PlanOfPass(2) \o PlanOfPass(3) \o PlanOfPass(4) \o PlanOfPass(5)

\* the pass is over after this query
LastOfPass(q) == q.inner = InnerCount(q.pass) /\ q.kw = KwCount(q.pass)

\* the loops of main and of search_*: the query after q in its pass
NextInPass(q) ==
    IF q.inner < InnerCount(q.pass) THEN [q EXCEPT !.inner = @ + 1]
    ELSE [q EXCEPT !.kw = @ + 1, !.inner = 1]

\* the found_by string a query passes to _add_repository
QueryTag(q) ==
    CASE q.pass = 1 -> <<"repo_description: ", "Firebase", " (",
                         time_ranges[q.inner][1], " to ",
                         time_ranges[q.inner][2], ")">>
      [] q.pass = 2 -> <<"code_search: ", "\"", firebase_keywords[q.kw], "\"", " (",
                         sort_orders[q.inner].sort, " ",
                         sort_orders[q.inner].order, ")">>
      [] q.pass = 3 -> <<"commit_search: ", "\"", firebase_keywords[q.kw], "\"">>
      [] q.pass = 4 -> <<"issue_search: ", "\"", firebase_keywords[q.kw], "\"", " (",
                         time_ranges[q.inner][1], " to ",
                         time_ranges[q.inner][2], ")">>
      [] q.pass = 5 -> <<"firebase_config: ", firebase_files[q.inner]>>
      [] q.pass = 6 -> <<"repo_description: ", "Windsurf", " (",
                         windsurf_time_ranges[q.inner][1], " to ",
                         windsurf_time_ranges[q.inner][2], ")">>

\* repository_url of an issue item
ApiUrl(name) == <<"https:", "/", "/", "api.github.com", "/", "repos", "/">> \o name

\* a repository_url with three path segments
ShortUrl == <<"https:", "/", "/", "api.github.com">>

\* what the API holds: the i-th item of every query's result list
Corpus == <<[full_name |-> Widget, html_url |-> Url1(Widget), description |-> "d1"],
            [full_name |-> Gizmo, html_url |-> Url1(Gizmo)]>>

IssueCorpus == <<[repository_url |-> ApiUrl(Widget)],
                 [repository_url |-> ShortUrl]>>

CorpusAt(i) == Corpus[((i - 1) % Len(Corpus)) + 1]

\* the i-th item as the pass's endpoint shapes it
ItemOf(p, i) ==
    CASE p \in {1, 6} -> CorpusAt(i)
      [] p \in {2, 3, 5} -> [repository |-> CorpusAt(i)]
      [] p = 4 -> IssueCorpus[((i - 1) % Len(IssueCorpus)) + 1]

\* search_issues, lines 221-230: the repo_info parsed from repository_url
IssueParts(item) == SplitOn(item.repository_url, <<"/">>)

\* owner and name taken one segment too early
IssueRepoInfo_Shifted(item) ==
    LET parts == IssueParts(item)
        owner == parts[Len(parts) - 2]
        repo_name == parts[Len(parts) - 1]
    IN  [full_name |-> owner \o <<"/">> \o repo_name,
         html_url |-> <<"https:", "/", "/", "github.com", "/">>
                          \o owner \o <<"/">> \o repo_name,
         description |-> ""]

IssueRepoInfo(item) ==
    LET parts == IssueParts(item)
        owner == parts[Len(parts) - 1]
        repo_name == parts[Len(parts)]
    IN  [full_name |-> owner \o <<"/">> \o repo_name,
         html_url |-> <<"https:", "/", "/", "github.com", "/">>
                          \o owner \o <<"/">> \o repo_name,
         description |-> ""]

\* a search_issues that takes any URL of three segments or more
Merged_ThreeSegments(p, item) == p # 4 \/ Len(IssueParts(item)) >= 3

\* the item is handed to _add_repository (search_issues skips short URLs)
Merged(p, item) == p # 4 \/ Len(IssueParts(item)) >= 5

\* the first argument of the pass's _add_repository call
MergeArg(p, item) ==
    CASE p \in {1, 2, 5, 6} -> item
      [] p = 3 -> item.repository
      [] p = 4 -> IssueRepoInfo(item)

\* endpoints of the driver's queries: small result lists, one item per page
DriverEndpoints(left) ==
    {[total |-> n, size |-> 1, avail |-> n, headers |-> "few"] : n \in 0..left}

\* a main that reports the missing token and searches all the same
MainNoToken_GoesOn ==
    /\ pc = "main"
    /\ ~token
    /\ pc' = "query"
    /\ pos' = FirstPos(1)
    /\ UNCHANGED <<walk, filt, csvfile, merger, aggVars, api, page, all_items, total_count, result, now, stalls,
                   nreq, lastReq, lastResp, quietUntil,
                   token, cursor, started, flushes, saved, served, aborts>>

\* main, lines 340-345: no token, report and return
MainNoToken ==
    /\ pc = "main"
    /\ ~token
    /\ pc' = "done"
    /\ UNCHANGED <<walk, filt, csvfile, merger, aggVars, api, page, all_items, total_count, result, now, stalls,
                   nreq, lastReq, lastResp, quietUntil,
                   token, pos, cursor, started, flushes, saved, served, aborts>>

\* main, lines 348-377: GitHubSearch(token), then the first pass begins
MainStart ==
    /\ pc = "main"
    /\ token
    /\ pc' = "query"
    /\ pos' = FirstPos(1)
    /\ UNCHANGED <<walk, filt, csvfile, merger, aggVars, api, page, all_items, total_count, result, now, stalls,
                   nreq, lastReq, lastResp, quietUntil,
                   token, cursor, started, flushes, saved, served, aborts>>

\* a search_* method builds params and calls self._make_request(url, params)
StartQuery ==
    /\ pc = "query"
    /\ pc' = "loop"
    /\ api' \in DriverEndpoints(MaxHits - served)
    /\ served' = served + api'.avail
    /\ started' = Append(started, pos)
    /\ EnterMakeRequest
    /\ lastReq' = NoReq
    /\ lastResp' = NoResp
    /\ UNCHANGED <<walk, filt, csvfile, merger, aggVars, now, stalls, quietUntil,
                   token, pos, cursor, flushes, saved, aborts>>

\* why the call ended: an HTTP error, a transport failure, or neither
AbortKind(resp) ==
    IF resp.status = -1 THEN {"transport"}
    ELSE IF resp.status \in ErrorStatuses THEN {"http"}
    ELSE {}

\* a search method that drops the result of a call an error has ended
TakeResult_DropsAborted ==
    /\ pc = "returned"
    /\ pc' = "merge"
    /\ cursor' = IF AbortKind(lastResp) = {} THEN 1 ELSE Count(result.items) + 1
    /\ aborts' = aborts \cup AbortKind(lastResp)
    /\ page' = 1
    /\ all_items' = << >>
    /\ total_count' = 0
    /\ nreq' = 0
    /\ lastReq' = NoReq
    /\ lastResp' = NoResp
    /\ UNCHANGED <<walk, filt, csvfile, merger, aggVars, api, result, now, stalls, quietUntil,
                   token, pos, started, flushes, saved, served>>

\* data = self._make_request(url, params): the loop over data['items'] begins
TakeResult ==
    /\ pc = "returned"
    /\ pc' = "merge"
    /\ cursor' = 1
    /\ aborts' = aborts \cup AbortKind(lastResp)
    /\ page' = 1
    /\ all_items' = << >>
    /\ total_count' = 0
    /\ nreq' = 0
    /\ lastReq' = NoReq
    /\ lastResp' = NoResp
    /\ UNCHANGED <<walk, filt, csvfile, merger, aggVars, api, result, now, stalls, quietUntil,
                   token, pos, started, flushes, saved, served>>

\* a merge that streams: an item is merged as soon as its page has arrived,
\* while _make_request is still fetching
MergeItem_Streaming ==
    /\ pc \in {"loop", "merge"}
    /\ cursor <= Count(IF pc = "loop" THEN all_items ELSE result.items)
    /\ cursor >= 1 \/ pc = "loop"
    /\ LET item == ItemOf(pos.pass, Max(cursor, 1))
       IN  IF Merged(pos.pass, item)
           THEN add_repository(MergeArg(pos.pass, item), QueryTag(pos), TRUE)
           ELSE UNCHANGED aggVars
    /\ cursor' = Max(cursor, 1) + 1
    /\ UNCHANGED <<walk, filt, csvfile, merger, reqVars, token, pos, started, flushes, saved, served, aborts>>

\* one iteration of  for item in data['items']
MergeItem ==
    /\ pc = "merge"
    /\ cursor <= Count(result.items)
    /\ LET item == ItemOf(pos.pass, cursor)
       IN  IF Merged(pos.pass, item)
           THEN add_repository(MergeArg(pos.pass, item), QueryTag(pos), TRUE)
           ELSE UNCHANGED aggVars
    /\ cursor' = cursor + 1
    /\ UNCHANGED <<walk, filt, csvfile, merger, reqVars, token, pos, started, flushes, saved, served, aborts>>

\* a delay after every query, whatever its search method
QueryDelay_Every(p) == IF p \in 1..6 THEN 1 ELSE 0

\* time.sleep(1) after each window (line 290) and each file (line 318)
QueryDelay(p) == IF p \in {1, 5, 6} THEN 1 ELSE 0

\* a driver that gives the run up once a query has been aborted
EndQuery_StopOnAbort ==
    /\ pc = "merge"
    /\ cursor > Count(result.items)
    /\ now' = now + QueryDelay(pos.pass)
    /\ IF aborts # {}
       THEN pc' = "done" /\ pos' = pos
       ELSE IF LastOfPass(pos)
            THEN pc' = "flush" /\ pos' = pos
            ELSE pc' = "query" /\ pos' = NextInPass(pos)
    /\ api' = NoApi
    /\ result' = NoResult
    /\ cursor' = 0
    /\ quietUntil' = Pending(quietUntil, now')
    /\ UNCHANGED <<walk, filt, csvfile, merger, aggVars, page, all_items, total_count, stalls,
                   nreq, lastReq, lastResp,
                   token, started, flushes, saved, served, aborts>>

\* the loop over the items is over: the next window, sort order or keyword,
\* or the end of the pass
EndQuery ==
    /\ pc = "merge"
    /\ cursor > Count(result.items)
    /\ now' = now + QueryDelay(pos.pass)
    /\ IF LastOfPass(pos)
       THEN pc' = "flush" /\ pos' = pos
       ELSE pc' = "query" /\ pos' = NextInPass(pos)
    /\ api' = NoApi
    /\ result' = NoResult
    /\ cursor' = 0
    /\ quietUntil' = Pending(quietUntil, now')
    /\ UNCHANGED <<walk, filt, csvfile, merger, aggVars, page, all_items, total_count, stalls,
                   nreq, lastReq, lastResp,
                   token, started, flushes, saved, served, aborts>>

\* searcher._save_search_results(search_type, searcher.current_search_repos)
FlushBatch ==
    /\ pc = "flush"
    /\ flushes' = Append(flushes, Passes[pos.pass])
    /\ pc' = "clear"
    /\ UNCHANGED <<walk, filt, csvfile, merger, aggVars, reqVars_but_pc, token, pos, cursor, started, saved,
                   served, aborts>>

\* a main that returns after the last pass without calling save_results
ClearBatch_NoSave ==
    /\ pc = "clear"
    /\ ClearCurrent
    /\ IF pos.pass < Len(Passes)
       THEN pc' = "query" /\ pos' = FirstPos(pos.pass + 1)
       ELSE pc' = "done" /\ pos' = pos
    /\ UNCHANGED <<walk, filt, csvfile, merger, reqVars_but_pc, token, cursor, started, flushes, saved,
                   served, aborts>>

\* a main that calls save_results as soon as the first batch is cleared
ClearBatch_SaveEarly ==
    /\ pc = "clear"
    /\ ClearCurrent
    /\ pc' = "save"
    /\ pos' = pos
    /\ UNCHANGED <<walk, filt, csvfile, merger, reqVars_but_pc, token, cursor, started, flushes, saved,
                   served, aborts>>

\* searcher.current_search_repos.clear(), then the next pass or save_results
ClearBatch ==
    /\ pc = "clear"
    /\ ClearCurrent
    /\ IF pos.pass < Len(Passes)
       THEN pc' = "query" /\ pos' = FirstPos(pos.pass + 1)
       ELSE pc' = "save" /\ pos' = pos
    /\ UNCHANGED <<walk, filt, csvfile, merger, reqVars_but_pc, token, cursor, started, flushes, saved,
                   served, aborts>>

\* searcher.save_results(), and main returns
SaveResults ==
    /\ pc = "save"
    /\ saved' = saved + 1
    /\ pc' = "done"
    /\ UNCHANGED <<walk, filt, csvfile, merger, aggVars, reqVars_but_pc, token, pos, cursor, started, flushes,
                   served, aborts>>

InitDrv ==
    /\ InitScopes
    /\ pc = "main"
    /\ api = NoApi
    /\ page = 1
    /\ all_items = << >>
    /\ total_count = 0
    /\ result = NoResult
    /\ now = StartTime
    /\ stalls = 0
    /\ nreq = 0
    /\ lastReq = NoReq
    /\ lastResp = NoResp
    /\ quietUntil = 0
    /\ token \in BOOLEAN
    /\ pos = NoPos
    /\ cursor = 0
    /\ started = << >>
    /\ flushes = << >>
    /\ saved = 0
    /\ served = 0
    /\ aborts = {}
    /\ InitNoWalk
    /\ InitNoFile /\ InitNoFilter
    /\ InitNoMerger

NextDrv ==
    \/ MainNoToken
    \/ MainStart
    \/ StartQuery
    \/ Fetch200Page
    \/ Fetch200Exhausted
    \/ Fetch403
    \/ FetchHttpError
    \/ FetchTransportError
    \/ TakeResult
    \/ MergeItem
    \/ EndQuery
    \/ FlushBatch
    \/ ClearBatch
    \/ SaveResults

SpecDrv == InitDrv /\ [][NextDrv]_vars

(***************************************************************************)
(* Driver of windsurf_repo_search_excel.py: main makes one description     *)
(* search (pass 6) and then save_results; it calls neither                 *)
(* _save_search_results nor current_search_repos.clear().                  *)
(***************************************************************************)
\* windsurf main, lines 196-201: GitHubSearch(token), then the search begins
WindsurfMainStart ==
    /\ pc = "main"
    /\ token
    /\ pc' = "query"
    /\ pos' = FirstPos(6)
    /\ UNCHANGED <<walk, filt, csvfile, merger, aggVars, api, page, all_items, total_count, result, now,
                   stalls, nreq, lastReq, lastResp, quietUntil,
                   token, cursor, started, flushes, saved, served, aborts>>

\* the loop over the items is over: the next window, or back in main, whose
\* next statement is searcher.save_results()
WindsurfEndQuery ==
    /\ pc = "merge"
    /\ cursor > Count(result.items)
    /\ now' = now + QueryDelay(pos.pass)
    /\ IF LastOfPass(pos)
       THEN pc' = "save" /\ pos' = pos
       ELSE pc' = "query" /\ pos' = NextInPass(pos)
    /\ api' = NoApi
    /\ result' = NoResult
    /\ cursor' = 0
    /\ quietUntil' = Pending(quietUntil, now')
    /\ UNCHANGED <<walk, filt, csvfile, merger, aggVars, page, all_items, total_count, stalls,
                   nreq, lastReq, lastResp,
                   token, started, flushes, saved, served, aborts>>

NextWsf ==
    \/ MainNoToken
    \/ WindsurfMainStart
    \/ StartQuery
    \/ Fetch200Page
    \/ Fetch200Exhausted
    \/ Fetch403
    \/ FetchHttpError
    \/ FetchTransportError
    \/ TakeResult
    \/ MergeItem
    \/ WindsurfEndQuery
    \/ SaveResults

SpecWsf == InitDrv /\ [][NextWsf]_vars

(***************************************************************************)
(* Search methods: search_repositories_by_description, search_code,        *)
(* search_commits and search_issues called directly, with any query, on    *)
(* any result lists.  A method is numbered like the pass of main that      *)
(* calls it (1 description, 2 code, 3 commits, 4 issues).                  *)
(***************************************************************************)
\* the aggregator's state as one value
Scopes ==
    [cur |-> current_search_repos, glob |-> repos, sh |-> shared,
     n |-> ncalls, last |-> lastCall, app |-> applied]

\* _add_repository as a function of the aggregator's state
MergeInto(st, repo_data, found_by, is_current_search) ==
    LET name  == Unwrap(repo_data).full_name
        info  == RepoInfo(repo_data, found_by)
        cur1  == CurAfterBatchHalf(st.cur, name, info, found_by, is_current_search)
        glob1 == GlobAfterBatchHalf(cur1, st.glob, st.sh, name)
        glob2 == GlobAfterGlobalHalf(glob1, name, info, found_by)
        cur2  == CurAfterGlobalHalf(cur1, glob2, st.sh, name)
    IN  [cur |-> cur2,
         glob |-> glob2,
         sh |-> SharedAfter(st.cur, st.glob, st.sh, name, is_current_search),
         n |-> st.n + 1,
         last |-> [kind |-> "add", name |-> name, url |-> info.url,
                   description |-> info.description, found_by |-> found_by,
                   is_current_search |-> is_current_search],
         app |-> [st.app EXCEPT ![name] = @ \cup {found_by}]]

\* the body of  for item in data['items']  of method p
ItemStep(st, p, item, found_by, is_current_search) ==
    IF Merged(p, item)
    THEN MergeInto(st, MergeArg(p, item), found_by, is_current_search)
    ELSE st

\* the whole loop over data['items']
RECURSIVE MergeAll(_, _, _, _, _)
MergeAll(st, p, items, found_by, is_current_search) ==
    IF items = << >> THEN st
    ELSE MergeAll(ItemStep(st, p, Head(items), found_by, is_current_search),
                  p, Tail(items), found_by, is_current_search)

\* the found_by f-strings of the four methods
DescTag(query, w) ==
    <<"repo_description: ">> \o query \o <<" (", w[1], " to ", w[2], ")">>

CodeTag(query, sort_order) ==
    <<"code_search: ">> \o query \o <<" (", sort_order.sort, " ", sort_order.order, ")">>

CommitTag(query) == <<"commit_search: ">> \o query

IssueTag(query, w) ==
    <<"issue_search: ">> \o query \o <<" (", w[1], " to ", w[2], ")">>

\* the loop over time_ranges of a windowed method: datas[i] is data['items']
\* of window i
RECURSIVE MergeWindows(_, _, _, _, _, _)
MergeWindows(st, p, query, datas, i, is_current_search) ==
    IF i > Len(time_ranges) THEN st
    ELSE MergeWindows(
             MergeAll(st, p, datas[i],
                      IF p = 1 THEN DescTag(query, time_ranges[i])
                      ELSE IssueTag(query, time_ranges[i]),
                      is_current_search),
             p, query, datas, i + 1, is_current_search)

\* the aggregator's state becomes st
Become(st) ==
    /\ current_search_repos' = st.cur
    /\ repos' = st.glob
    /\ shared' = st.sh
    /\ ncalls' = st.n
    /\ lastCall' = st.last
    /\ applied' = st.app

\* the query strings the methods are called with
Queries == {<<"X">>, <<"X", " ", "Y">>}

\* lists of at most two items
UpToTwo(S) == {<< >>} \cup {<<x>> : x \in S} \cup {<<x, y>> : x \in S, y \in S}

\* data['items'] of a description, code or commit query
RepoResults(p) == UpToTwo({ItemOf(p, i) : i \in 1..Len(Corpus)})

\* a repository_url with four path segments
ReposUrl == <<"https:", "/", "/", "api.github.com", "/", "repos">>

\* data['items'] of an issue query
IssueResults ==
    UpToTwo({[repository_url |-> u] :
                u \in {ApiUrl(Widget), ApiUrl(Gizmo), ShortUrl, ReposUrl}})

\* one data['items'] per window, at most two items in all
PerWindow(R) ==
    {datas \in [1..Len(time_ranges) -> R] :
        \A i, j \in DOMAIN datas : i # j => Len(datas[i]) + Len(datas[j]) <= 2}

\* the items of all the lists of a call
RECURSIVE TotalLen(_)
TotalLen(datas) ==
    IF datas = << >> THEN 0 ELSE Len(Head(datas)) + TotalLen(Tail(datas))

\* the API serves the lists of a call out of the items it holds for the run
Serve(datas) ==
    /\ served + TotalLen(datas) <= MaxHits
    /\ served' = served + TotalLen(datas)

search_repositories_by_description(query, datas) ==
    /\ Become(MergeWindows(Scopes, 1, query, datas, 1, TRUE))
    /\ started' = Append(started, [method |-> 1, query |-> query, datas |-> datas])

search_code(query, sort_order, items) ==
    /\ Become(MergeAll(Scopes, 2, items, CodeTag(query, sort_order), TRUE))
    /\ started' = Append(started, [method |-> 2, query |-> query, datas |-> <<items>>])

search_commits(query, items) ==
    /\ Become(MergeAll(Scopes, 3, items, CommitTag(query), TRUE))
    /\ started' = Append(started, [method |-> 3, query |-> query, datas |-> <<items>>])

search_issues(query, datas) ==
    /\ Become(MergeWindows(Scopes, 4, query, datas, 1, TRUE))
    /\ started' = Append(started, [method |-> 4, query |-> query, datas |-> datas])

SearchRepositoriesByDescription ==
    /\ Len(started) < MaxSearches
    /\ \E query \in Queries, datas \in PerWindow(RepoResults(1)) :
          /\ Serve(datas)
          /\ search_repositories_by_description(query, datas)
    /\ UNCHANGED <<walk, filt, csvfile, merger, reqVars, token, pos, cursor, flushes, saved, aborts>>

SearchCode ==
    /\ Len(started) < MaxSearches
    /\ \E query \in Queries, i \in 1..Len(sort_orders), items \in RepoResults(2) :
          /\ Serve(<<items>>)
          /\ search_code(query, sort_orders[i], items)
    /\ UNCHANGED <<walk, filt, csvfile, merger, reqVars, token, pos, cursor, flushes, saved, aborts>>

SearchCommits ==
    /\ Len(started) < MaxSearches
    /\ \E query \in Queries, items \in RepoResults(3) :
          /\ Serve(<<items>>)
          /\ search_commits(query, items)
    /\ UNCHANGED <<walk, filt, csvfile, merger, reqVars, token, pos, cursor, flushes, saved, aborts>>

SearchIssues ==
    /\ Len(started) < MaxSearches
    /\ \E query \in Queries, datas \in PerWindow(IssueResults) :
          /\ Serve(datas)
          /\ search_issues(query, datas)
    /\ UNCHANGED <<walk, filt, csvfile, merger, reqVars, token, pos, cursor, flushes, saved, aborts>>

InitSearch == InitScopes /\ InitNoRequest /\ InitNoDriver /\ InitNoWalk
    /\ InitNoFile /\ InitNoMerger /\ InitNoFilter

NextSearch ==
    \/ SearchRepositoriesByDescription
    \/ SearchCode
    \/ SearchCommits
    \/ SearchIssues

SpecSearch == InitSearch /\ [][NextSearch]_vars

(***************************************************************************)
(* Time windows: the hard-coded time_ranges lists and the loops            *)
(*   for start_date, end_date in time_ranges                               *)
(* whose queries carry the filter created:{start_date}..{end_date}.  A     *)
(* date "YYYY-MM-DD" is the tuple <<YYYY, MM, DD>>.                        *)
(***************************************************************************)
\* firebase search_issues
firebase_issue_time_ranges ==
    <<<<<<2023, 7, 1>>, <<2023, 7, 31>>>>,
      <<<<2023, 8, 1>>, <<2023, 8, 31>>>>,
      <<<<2023, 9, 1>>, <<2023, 9, 30>>>>,
      <<<<2023, 10, 1>>, <<2023, 10, 31>>>>,
      <<<<2023, 11, 1>>, <<2023, 11, 30>>>>,
      <<<<2023, 12, 1>>, <<2023, 12, 31>>>>,
      <<<<2024, 1, 1>>, <<2024, 1, 31>>>>,
      <<<<2024, 2, 1>>, <<2024, 2, 29>>>>,
      <<<<2024, 3, 1>>, <<2024, 3, 31>>>>,
      <<<<2024, 4, 1>>, <<2024, 4, 30>>>>,
      <<<<2024, 5, 1>>, <<2024, 5, 31>>>>,
      <<<<2024, 6, 1>>, <<2024, 6, 30>>>>,
      <<<<2024, 7, 1>>, <<2024, 7, 31>>>>,
      <<<<2024, 8, 1>>, <<2024, 8, 31>>>>,
      <<<<2024, 9, 1>>, <<2024, 9, 30>>>>,
      <<<<2024, 10, 1>>, <<2024, 10, 31>>>>,
      <<<<2024, 11, 1>>, <<2024, 11, 30>>>>,
      <<<<2024, 12, 1>>, <<2024, 12, 31>>>>,
      <<<<2025, 1, 1>>, <<2025, 1, 31>>>>,
      <<<<2025, 2, 1>>, <<2025, 2, 28>>>>,
      <<<<2025, 3, 1>>, <<2025, 3, 15>>>>,
      <<<<2025, 3, 16>>, <<2025, 3, 31>>>>,
      <<<<2025, 4, 1>>, <<2025, 4, 15>>>>,
      <<<<2025, 4, 16>>, <<2025, 4, 30>>>>>>

\* firebase search_repositories_by_description
firebase_description_time_ranges ==
    <<<<<<2023, 7, 1>>, <<2023, 7, 31>>>>,
      <<<<2023, 8, 1>>, <<2023, 8, 31>>>>,
      <<<<2023, 9, 1>>, <<2023, 9, 30>>>>,
      <<<<2023, 10, 1>>, <<2023, 10, 31>>>>,
      <<<<2023, 11, 1>>, <<2023, 11, 30>>>>,
      <<<<2023, 12, 1>>, <<2023, 12, 31>>>>,
      <<<<2024, 1, 1>>, <<2024, 1, 31>>>>,
      <<<<2024, 2, 1>>, <<2024, 2, 29>>>>,
      <<<<2024, 3, 1>>, <<2024, 3, 31>>>>,
      <<<<2024, 4, 1>>, <<2024, 4, 30>>>>,
      <<<<2024, 5, 1>>, <<2024, 5, 31>>>>,
      <<<<2024, 6, 1>>, <<2024, 6, 30>>>>,
      <<<<2024, 7, 1>>, <<2024, 7, 31>>>>,
      <<<<2024, 8, 1>>, <<2024, 8, 31>>>>,
      <<<<2024, 9, 1>>, <<2024, 9, 30>>>>,
      <<<<2024, 10, 1>>, <<2024, 10, 31>>>>,
      <<<<2024, 11, 1>>, <<2024, 11, 30>>>>,
      <<<<2024, 12, 1>>, <<2024, 12, 31>>>>,
      <<<<2025, 1, 1>>, <<2025, 1, 31>>>>,
      <<<<2025, 2, 1>>, <<2025, 2, 28>>>>,
      <<<<2025, 3, 1>>, <<2025, 3, 15>>>>,
      <<<<2025, 3, 16>>, <<2025, 3, 31>>>>,
      <<<<2025, 4, 1>>, <<2025, 4, 15>>>>,
      <<<<2025, 4, 16>>, <<2025, 4, 30>>>>>>

\* a trae list whose second window begins a day late
trae_issue_time_ranges_Gap ==
    <<<<<<2024, 7, 1>>, <<2024, 12, 31>>>>,
      <<<<2025, 1, 2>>, <<2025, 6, 30>>>>>>

\* trae search_issues
trae_issue_time_ranges ==
    <<<<<<2024, 7, 1>>, <<2024, 12, 31>>>>,
      <<<<2025, 1, 1>>, <<2025, 6, 30>>>>>>

\* windsurf search_repositories_by_description
windsurf_description_time_ranges ==
    <<<<<<2024, 11, 1>>, <<2024, 11, 30>>>>,
      <<<<2024, 12, 1>>, <<2024, 12, 31>>>>,
      <<<<2025, 1, 1>>, <<2025, 1, 31>>>>,
      <<<<2025, 2, 1>>, <<2025, 2, 28>>>>,
      <<<<2025, 3, 1>>, <<2025, 3, 15>>>>,
      <<<<2025, 3, 16>>, <<2025, 3, 31>>>>,
      <<<<2025, 4, 1>>, <<2025, 4, 15>>>>,
      <<<<2025, 4, 16>>, <<2025, 4, 30>>>>>>

\* the four lists, by the method that holds them
Ranges ==
    [firebase_issues |-> firebase_issue_time_ranges,
     firebase_descriptions |-> firebase_description_time_ranges,
     trae_issues |-> trae_issue_time_ranges,
     windsurf_descriptions |-> windsurf_description_time_ranges]

\* the Gregorian calendar
IsLeap(y) == (y % 4 = 0 /\ y % 100 # 0) \/ y % 400 = 0

DaysIn(y, m) ==
    IF m = 2 THEN (IF IsLeap(y) THEN 29 ELSE 28)
    ELSE IF m \in {4, 6, 9, 11} THEN 30
    ELSE 31

ValidDate(d) == d[2] \in 1..12 /\ d[3] \in 1..DaysIn(d[1], d[2])

NextDay(d) ==
    IF d[3] < DaysIn(d[1], d[2]) THEN <<d[1], d[2], d[3] + 1>>
    ELSE IF d[2] < 12 THEN <<d[1], d[2] + 1, 1>>
    ELSE <<d[1] + 1, 1, 1>>

\* a <= b; on zero-padded ISO strings this is also the string order
DateLE(a, b) ==
    \/ a[1] < b[1]
    \/ a[1] = b[1] /\ a[2] < b[2]
    \/ a[1] = b[1] /\ a[2] = b[2] /\ a[3] <= b[3]

\* the tuple the loop is at
Window == Ranges[walk.ranges][walk.window]

\* a further day matched by the filter created:start_date..end_date
DayInWindow ==
    /\ walk.ranges # "none"
    /\ walk.day # Window[2]
    /\ DateLE(walk.day, Window[2])
    /\ walk' = [walk EXCEPT !.day = NextDay(@)]
    /\ UNCHANGED <<filt, csvfile, merger, aggVars, reqVars, drvVars>>

\* the for loop takes the next tuple of the list
NextWindow ==
    /\ walk.ranges # "none"
    /\ walk.day = Window[2]
    /\ walk.window < Len(Ranges[walk.ranges])
    /\ walk' = [walk EXCEPT !.window = @ + 1,
                            !.day = Ranges[walk.ranges][walk.window + 1][1]]
    /\ UNCHANGED <<filt, csvfile, merger, aggVars, reqVars, drvVars>>

InitWin ==
    /\ InitScopes
    /\ InitNoRequest
    /\ InitNoDriver
    /\ walk \in {[ranges |-> r, window |-> 1, day |-> Ranges[r][1][1]] :
                    r \in DOMAIN Ranges}
    /\ InitNoFile /\ InitNoFilter
    /\ InitNoMerger

NextWin == DayInWindow \/ NextWindow

SpecWin == InitWin /\ [][NextWin]_vars

(***************************************************************************)
(* Catalog writers: _save_search_results and save_results, of firebase     *)
(* (csv.DictWriter) and of windsurf (pandas DataFrame to Excel).  A string *)
(* of the harness is a sequence of one-character fragments, so Python's    *)
(* string order is the lexicographic order of the code points.             *)
(***************************************************************************)
\* ord(c)
CodeOf(c) ==
    CASE c = " " -> 32
      [] c = "," -> 44
      [] c = "a" -> 97
      [] c = "b" -> 98

\* Python: s <= t on strings
RECURSIVE StrLE(_, _)
StrLE(s, t) ==
    IF s = << >> THEN TRUE
    ELSE IF t = << >> THEN FALSE
    ELSE IF Head(s) = Head(t) THEN StrLE(Tail(s), Tail(t))
    ELSE CodeOf(Head(s)) < CodeOf(Head(t))

\* repos_dict.items(): the (name, info) pairs in the dict's order, which the
\* scopes of the model do not keep; any order of the keys
ItemOrders(scope) ==
    {o \in [1..Cardinality(DOMAIN scope) -> DOMAIN scope] :
        \A i, j \in DOMAIN o : i # j => o[i] # o[j]}

\* the place sorted() gives an item: behind every item whose key is not
\* greater (the sort is stable)
RECURSIVE InsertByFoundBy(_, _, _)
InsertByFoundBy(name, done, scope) ==
    IF done = << >> THEN <<name>>
    ELSE IF StrLE(scope[Head(done)].found_by, scope[name].found_by)
         THEN <<Head(done)>> \o InsertByFoundBy(name, Tail(done), scope)
         ELSE <<name>> \o done

\* a writer that takes the items in the order of the dict
SortedByFoundBy_DictOrder(order, scope) == order

\* sorted(repos_dict.items(), key=lambda x: x[1]['found_by'])
RECURSIVE SortedByFoundBy(_, _)
SortedByFoundBy(order, scope) ==
    IF order = << >> THEN << >>
    ELSE InsertByFoundBy(order[Len(order)],
                         SortedByFoundBy(SubSeq(order, 1, Len(order) - 1), scope),
                         scope)

\* row = {'name': repo_name}; row.update(info)
RowOf(name, info) == info @@ [name |-> name]

\* fieldnames = ['name', 'url', 'description', 'found_by']
fieldnames == <<"name", "url", "description", "found_by">>

\* the keys of a row dict in insertion order: name, then the keys of info as
\* _add_repository built it
RowKeys == <<"name", "url", "description", "found_by">>

\* what a cell shows of a value: None is written as the empty text
Cell(v) == IF v = None THEN "" ELSE v

\* writer.writerow(row): the cells of the row in the order of the columns
Line(row, columns) == [k \in DOMAIN columns |-> Cell(row[columns[k]])]

\* the rows in the order written, as row dicts
RowDicts(order, scope) ==
    LET names == SortedByFoundBy(order, scope)
    IN  [i \in DOMAIN names |-> RowOf(names[i], scope[names[i]])]

\* firebase: writer.writeheader(), then one writer.writerow per item
WriteCsv(label, arg, order, scope) ==
    LET data == RowDicts(order, scope)
    IN  [writer |-> "csv", search_type |-> label, scope |-> arg,
         header |-> fieldnames,
         rows |-> [i \in DOMAIN data |-> Line(data[i], fieldnames)]]

\* windsurf: pd.DataFrame(data).to_excel(...): the columns are the keys of the
\* row dicts, none when there is no row
WriteExcel(label, arg, order, scope) ==
    LET data == RowDicts(order, scope)
        columns == IF data = << >> THEN << >> ELSE RowKeys
    IN  [writer |-> "excel", search_type |-> label, scope |-> arg,
         header |-> columns,
         rows |-> [i \in DOMAIN data |-> Line(data[i], columns)]]

\* firebase _save_search_results(search_type, self.current_search_repos)
SaveSearchResults ==
    /\ \E label \in {"repo_descriptions"}, order \in ItemOrders(current_search_repos) :
          csvfile' = WriteCsv(label, "current_search_repos", order, current_search_repos)
    /\ UNCHANGED <<walk, filt, merger, aggVars, reqVars, drvVars>>

\* firebase save_results()
SaveAllResults ==
    /\ \E order \in ItemOrders(repos) :
          csvfile' = WriteCsv("all_repositories", "repos", order, repos)
    /\ UNCHANGED <<walk, filt, merger, aggVars, reqVars, drvVars>>

\* windsurf _save_search_results(search_type, self.current_search_repos)
WindsurfSaveSearchResults ==
    /\ \E label \in {"repo_descriptions"}, order \in ItemOrders(current_search_repos) :
          csvfile' = WriteExcel(label, "current_search_repos", order, current_search_repos)
    /\ UNCHANGED <<walk, filt, merger, aggVars, reqVars, drvVars>>

\* windsurf save_results()
WindsurfSaveAllResults ==
    /\ \E order \in ItemOrders(repos) :
          csvfile' = WriteExcel("all_repositories", "repos", order, repos)
    /\ UNCHANGED <<walk, filt, merger, aggVars, reqVars, drvVars>>

\* what the searches find between the writes: one repository with a
\* description, one whose description is null
Found ==
    {[full_name |-> Widget, html_url |-> Url1(Widget), description |-> "d1"],
     [full_name |-> Gizmo, html_url |-> Url1(Gizmo), description |-> None]}

\* records enter the scopes between the writes
AddBeforeWrite ==
    /\ ncalls < MaxAdds
    /\ \E repo_data \in Found, found_by \in Tags, is_current_search \in BOOLEAN :
          add_repository(repo_data, found_by, is_current_search)
    /\ UNCHANGED <<walk, filt, csvfile, merger, reqVars, drvVars>>

NextSave ==
    \/ AddBeforeWrite
    \/ Clear
    \/ SaveSearchResults
    \/ SaveAllResults
    \/ WindsurfSaveSearchResults
    \/ WindsurfSaveAllResults

SpecSave == InitAgg /\ [][NextSave]_vars

(***************************************************************************)
(* merge_csv_files.py: process_csv_files reads every CSV file of the       *)
(* directory row by row into repo_data, keyed by the name column, and      *)
(* writes the merged records.  merger holds its locals; the files and      *)
(* their rows are what the reader happens to deliver.                      *)
(***************************************************************************)
\* the None that csv.DictReader puts in a cell the line did not fill
NoneCell == <<None>>

\* Python: not v, for a cell
Falsy(v) == v = << >> \/ v = NoneCell

\* the header lines of the files in the directory
CsvHeaders ==
    {<<"name", "found_by">>,
     <<"name", "url", "stars", "found_by">>,
     <<"url">>}

\* what a line of a file may hold under a column
CellsOf(column) ==
    CASE column = "name" -> {Widget, Gizmo, << >>, NoneCell}
      [] column = "found_by" -> {<<"a">>, <<"b">>, << >>}
      [] column = "stars" -> {<<"5">>}
      [] column = "url" -> {<<"u">>, <<"v">>}

\* the dicts csv.DictReader yields for a file with this header
RECURSIVE CsvRows(_)
CsvRows(header) ==
    IF header = << >> THEN {<< >>}
    ELSE {(Head(header) :> v) @@ rest :
            v \in CellsOf(Head(header)), rest \in CsvRows(Tail(header))}

\* line 40: the columns kept, match_location and stars removed
KeptFields(header) == SelectSeq(header, LAMBDA f : f \notin {"match_location", "stars"})

\* a test that asks for the column only, not for a value in it
HasName_KeyOnly(row) == "name" \in DOMAIN row

\* line 46, negated: 'name' in row and row['name']
HasName(row) == "name" \in DOMAIN row /\ ~Falsy(row["name"])

\* Python: sep.join(parts)
RECURSIVE JoinWith(_, _)
JoinWith(parts, sep) ==
    IF parts = << >> THEN << >>
    ELSE IF Len(parts) = 1 THEN parts[1]
    ELSE parts[1] \o sep \o JoinWith(Tail(parts), sep)

\* lines 60-63: ", ".join(set(old.split(", ")) | set(new.split(", "))); a set
\* is iterated in an order the language does not fix
MergedFoundBy(old, new) ==
    LET items == TagSet(old) \cup TagSet(new)
    IN  {JoinWith(o, Sep) :
            o \in {f \in [1..Cardinality(items) -> items] :
                      \A i, j \in DOMAIN f : i # j => f[i] # f[j]}}

\* line 71: {field: row.get(field, '') for field in fieldnames}
NewRecord(row, fields) ==
    [f \in {fields[i] : i \in DOMAIN fields} |-> Get(row, f, << >>)]

\* lines 66-68: every kept field but found_by is taken from the new row
Refreshed(rec, row, fields, found_by) ==
    [f \in DOMAIN rec |->
        IF f = "found_by" THEN found_by
        ELSE IF f \in {fields[i] : i \in DOMAIN fields} THEN Get(row, f, << >>)
        ELSE rec[f]]

NoRow == [none |-> TRUE]

\* the locals after the row has gone through lines 44-75
AfterRow(m, row, outcome, data) ==
    [m EXCEPT !.nrows = @ + 1, !.lastRow = row, !.outcome = outcome,
              !.repo_data = data,
              !.skipped = IF outcome = "skipped" THEN @ + 1 ELSE @]

\* line 32: the for loop takes the next file; line 36-40: its header is read
OpenFile ==
    /\ merger.pc = "files"
    /\ merger.nfiles < MaxFiles
    /\ \E header \in CsvHeaders :
          merger' = [merger EXCEPT
                        !.pc = "rows", !.nfiles = @ + 1,
                        !.header = header,
                        !.fieldnames = IF @ = << >> THEN KeptFields(header) ELSE @]
    /\ UNCHANGED <<walk, filt, csvfile, aggVars, reqVars, drvVars>>

\* lines 77-79: the file cannot be opened or read: reported, next file
OpenFileFails ==
    /\ merger.pc = "files"
    /\ merger.nfiles < MaxFiles
    /\ merger' = [merger EXCEPT !.nfiles = @ + 1, !.outcome = "file error"]
    /\ UNCHANGED <<walk, filt, csvfile, aggVars, reqVars, drvVars>>

\* lines 46-48: a row without a name: reported, continue
SkipRow(row) ==
    /\ ~HasName(row)
    /\ merger' = AfterRow(merger, row, "skipped", merger.repo_data)

\* lines 69-71: the first row of a repository
CreateRecord(row) ==
    /\ HasName(row)
    /\ row["name"] \notin DOMAIN merger.repo_data
    /\ merger' = AfterRow(merger, row, "created",
                          (row["name"] :> NewRecord(row, merger.fieldnames))
                              @@ merger.repo_data)

\* lines 54-68: a further row of a repository
MergeRecord(row) ==
    /\ HasName(row)
    /\ row["name"] \in DOMAIN merger.repo_data
    /\ LET rec == merger.repo_data[row["name"]]
       IN  /\ "found_by" \in DOMAIN rec
           /\ rec.found_by # NoneCell
           /\ Get(row, "found_by", << >>) # NoneCell
           /\ \E joined \in MergedFoundBy(rec.found_by, Get(row, "found_by", << >>)) :
                 merger' = AfterRow(merger, row, "merged",
                              [merger.repo_data EXCEPT ![row["name"]] =
                                  Refreshed(rec, row, merger.fieldnames, joined)])

\* lines 72-75: the row raised (no found_by in the record: KeyError; a None
\* found_by in the record or in the row: AttributeError) before anything was
\* assigned: reported, continue
RowRaises(row) ==
    /\ HasName(row)
    /\ row["name"] \in DOMAIN merger.repo_data
    /\ LET rec == merger.repo_data[row["name"]]
       IN  IF "found_by" \notin DOMAIN rec THEN TRUE
           ELSE rec.found_by = NoneCell \/ Get(row, "found_by", << >>) = NoneCell
    /\ merger' = AfterRow(merger, row, "row error", merger.repo_data)

\* lines 43-75: one iteration of  for row in reader
ReadRow ==
    /\ merger.pc = "rows"
    /\ merger.nrows < MaxRows
    /\ \E row \in CsvRows(merger.header) :
          \/ SkipRow(row)
          \/ CreateRecord(row)
          \/ MergeRecord(row)
          \/ RowRaises(row)
    /\ UNCHANGED <<walk, filt, csvfile, aggVars, reqVars, drvVars>>

\* writer.writerows: the cells of a record in the order of the columns, a None
\* written as the empty text
MergedLine(rec, columns) ==
    [k \in DOMAIN columns |->
        IF rec[columns[k]] = NoneCell THEN << >> ELSE rec[columns[k]]]

\* the reader is exhausted: the with block ends, back to line 32
EndFile ==
    /\ merger.pc = "rows"
    /\ merger' = [merger EXCEPT !.pc = "files"]
    /\ UNCHANGED <<walk, filt, csvfile, aggVars, reqVars, drvVars>>

\* lines 21-23 and 82-84: no file, or no row with a name: report and return
ReturnEmpty ==
    /\ merger.pc = "files"
    /\ merger.repo_data = << >>
    /\ merger' = [merger EXCEPT !.pc = "returned"]
    /\ UNCHANGED <<walk, filt, csvfile, aggVars, reqVars, drvVars>>

\* lines 86-96: writer.writeheader(); writer.writerows(repo_data.values())
WriteMerged ==
    /\ merger.pc = "files"
    /\ merger.repo_data # << >>
    /\ \E order \in ItemOrders(merger.repo_data) :
          csvfile' = [writer |-> "csv", search_type |-> "cursor_merged_repos",
                      scope |-> "repo_data",
                      header |-> merger.fieldnames,
                      rows |-> [i \in DOMAIN order |->
                                  MergedLine(merger.repo_data[order[i]],
                                             merger.fieldnames)]]
    /\ merger' = [merger EXCEPT !.pc = "returned"]
    /\ UNCHANGED <<walk, filt, aggVars, reqVars, drvVars>>

InitMerge ==
    /\ InitScopes
    /\ InitNoRequest
    /\ InitNoDriver
    /\ InitNoWalk
    /\ InitNoFile /\ InitNoFilter
    /\ merger = [pc |-> "files", nfiles |-> 0, nrows |-> 0, header |-> << >>,
                 fieldnames |-> << >>, repo_data |-> << >>,
                 lastRow |-> NoRow, outcome |-> "none", skipped |-> 0]

NextMerge ==
    \/ OpenFile
    \/ OpenFileFails
    \/ ReadRow
    \/ EndFile
    \/ ReturnEmpty
    \/ WriteMerged

SpecMerge == InitMerge /\ [][NextMerge]_vars

(***************************************************************************)
(* The statistics pass of the void filter, src/void/void_repo_filter.py:   *)
(* get_github_stats asks the API about one repository URL, and the loop of *)
(* filter_csv_by_keywords calls it for every URL of the filtered rows.     *)
(* filt holds the locals of filter_csv_by_keywords from line 226 on.       *)
(***************************************************************************)
\* the most rows the filtered frame holds
MaxUrls == 3

\* Python's None where a dict or a status code may stand as well
NoneValue == [py |-> "None"]

\* s.strip('/')
RECURSIVE StripSlash(_)
StripSlash(s) ==
    IF s = << >> THEN s
    ELSE IF Head(s) = "/" THEN StripSlash(Tail(s))
    ELSE IF s[Len(s)] = "/" THEN StripSlash(SubSeq(s, 1, Len(s) - 1))
    ELSE s

\* the url column of the filtered rows: a repository page with and without
\* a trailing slash, one written without its scheme, and one of another host
RepoUrls ==
    { Url1(Widget),
      Url1(Gizmo) \o <<"/">>,
      <<"github.com", "/">> \o Widget,
      <<"https:", "/", "/", "gitlab.com", "/">> \o Widget }

\* what the API does to the two requests of one get_github_stats call:
\* requests.get raises, or the repository request is refused, or it is
\* served and the commits request is refused or served; last is the page
\* number of the rel="last" link of the commits response, 0 when it has none
ApiAnswers ==
    {[raises |-> TRUE, repo |-> 200, stars |-> 0, commits |-> 200, last |-> 0]}
    \cup {[raises |-> FALSE, repo |-> r, stars |-> 0, commits |-> 200, last |-> 0] :
            r \in {403, 404, 409}}
    \cup {[raises |-> FALSE, repo |-> 200, stars |-> n, commits |-> c, last |-> k] :
            n \in {0, 5}, c \in {200, 409}, k \in {0, 7}}

\* lines 9-104: get_github_stats(repo_url), as the values its return
\* statement lists: one value at lines 15 and 20, two everywhere else
GetGithubStats(repo_url, answer) ==
    IF ~Contains(repo_url, <<"github.com">>) THEN <<NoneValue>>
    ELSE IF Len(SplitOn(StripSlash(repo_url), <<"/">>)) < 5 THEN <<NoneValue>>
    ELSE IF answer.raises THEN <<NoneValue, NoneValue>>
    ELSE IF answer.repo # 200 THEN <<NoneValue, answer.repo>>
    ELSE IF answer.commits # 200 THEN <<NoneValue, answer.commits>>
    ELSE <<[stars |-> answer.stars, commit_count |-> answer.last], answer.commits>>

\* line 234: the entry of a row without statistics
EmptyStats == [stars |-> NoneValue, commit_count |-> NoneValue]

\* lines 229-236, one pass of the loop whose call returns two values
StatsRow ==
    /\ filt.pc = "loop"
    /\ filt.i < Len(filt.urls)
    /\ \E answer \in ApiAnswers :
         LET returned == GetGithubStats(filt.urls[filt.i + 1], answer)
         IN  /\ Len(returned) = 2
             /\ filt' = [filt EXCEPT
                           !.i = @ + 1,
                           !.stats_data = Append(@, IF returned[1] # NoneValue
                                                    THEN returned[1]
                                                    ELSE EmptyStats),
                           !.status_codes = Append(@, returned[2]),
                           !.slept = @ + 1]
    /\ UNCHANGED <<walk, csvfile, merger, aggVars, reqVars, drvVars>>

\* line 230 when the call returns the single None of line 15 or 20: the
\* unpacking raises TypeError, nothing catches it and the function is left
StatsRowRaises ==
    /\ filt.pc = "loop"
    /\ filt.i < Len(filt.urls)
    /\ \E answer \in ApiAnswers :
         Len(GetGithubStats(filt.urls[filt.i + 1], answer)) # 2
    /\ filt' = [filt EXCEPT !.pc = "raised"]
    /\ UNCHANGED <<walk, csvfile, merger, aggVars, reqVars, drvVars>>

\* lines 239-260 once the loop has ended: the status_code column, the two
\* statistics columns when there is any row, and the file written
FinishStats ==
    /\ filt.pc = "loop"
    /\ filt.i = Len(filt.urls)
    /\ filt' = [filt EXCEPT
                  !.pc = IF filt.stats_data # << >>
                            /\ Len(filt.stats_data) # Len(filt.urls)
                         THEN "mismatch" ELSE "saved",
                  !.columns = IF filt.stats_data # << >>
                                 /\ Len(filt.stats_data) = Len(filt.urls)
                              THEN {"url", "status_code", "stars", "commit_count"}
                              ELSE {"url", "status_code"}]
    /\ UNCHANGED <<walk, csvfile, merger, aggVars, reqVars, drvVars>>

RECURSIVE UrlLists(_)
UrlLists(n) ==
    IF n = 0 THEN {<< >>}
    ELSE UrlLists(n - 1)
         \cup {Append(l, u) : l \in {x \in UrlLists(n - 1) : Len(x) = n - 1}, u \in RepoUrls}

InitStats ==
    /\ InitScopes /\ InitNoRequest /\ InitNoDriver /\ InitNoWalk
    /\ InitNoFile /\ InitNoMerger
    /\ \E urls \in UrlLists(MaxUrls) :
         filt = [pc |-> "loop", urls |-> urls, i |-> 0, stats_data |-> << >>,
                 status_codes |-> << >>, slept |-> 0, columns |-> {"url"}]

NextStats ==
    \/ StatsRow
    \/ StatsRowRaises
    \/ FinishStats

SpecStats == InitStats /\ [][NextStats]_vars

(***************************************************************************)
(* Properties of the aggregator, checked under SpecAgg.                    *)
(***************************************************************************)
\* a step that is an _add_repository call
AddStep == ncalls' = ncalls + 1

\* an _add_repository call that repeats the identity, the tag and the
\* batch-tracking flag of the call made just before it
SecondCallStep ==
    /\ lastCall.kind = "add"
    /\ AddStep
    /\ lastCall'.name = lastCall.name
    /\ lastCall'.found_by = lastCall.found_by
    /\ lastCall'.is_current_search = lastCall.is_current_search

\* C1 (Dedup idempotence): when _add_repository is called twice in a row with
\* the same identity and tag, the second call changes neither scope and the
\* found_by of that identity then holds the tag exactly once as a ", "
\* component, in every scope the calls wrote to.
C1_DedupIdempotence ==
    [][SecondCallStep =>
        /\ UNCHANGED <<current_search_repos, repos>>
        /\ Occurrences(repos'[lastCall.name].found_by, lastCall.found_by) = 1
        /\ lastCall.is_current_search =>
              Occurrences(current_search_repos'[lastCall.name].found_by,
                          lastCall.found_by) = 1]_vars

\* C2 (Provenance monotonicity): at every moment the provenance set of an
\* identity's global record (the ", " components of found_by) is exactly the
\* set of all tags applied to that identity so far; hence it never loses a
\* tag and ends as the union of the tags applied.
C2_ProvenanceMonotonicity ==
    \A n \in Names :
        applied[n] # {} =>
            /\ n \in DOMAIN repos
            /\ TagSet(repos[n].found_by) = applied[n]

\* C3 (Scope superset): every key of the batch scope is a key of the global
\* scope, and the global record's tag set contains the batch record's.
C3_ScopeSuperset ==
    \A n \in DOMAIN current_search_repos :
        /\ n \in DOMAIN repos
        /\ TagSet(current_search_repos[n].found_by) \subseteq TagSet(repos[n].found_by)

\* C4 as claimed (last-write-wins): after a merge the record of that identity
\* holds the url and description of that merge, in every scope it wrote to.
C4_LastWriteWins ==
    lastCall.kind = "add" =>
        /\ repos[lastCall.name].url = lastCall.url
        /\ repos[lastCall.name].description = lastCall.description
        /\ lastCall.is_current_search =>
              /\ current_search_repos[lastCall.name].url = lastCall.url
              /\ current_search_repos[lastCall.name].description
                    = lastCall.description

\* the url and description a scope holds for a name are kept by a step
KeepsFields(scope, scopeAfter) ==
    \A n \in DOMAIN scope :
        /\ n \in DOMAIN scopeAfter
        /\ scopeAfter[n].url = scope[n].url
        /\ scopeAfter[n].description = scope[n].description

\* a name that a step inserts into a scope gets the incoming url/description
InsertsIncoming(scope, scopeAfter, call) ==
    \A n \in (DOMAIN scopeAfter) \ (DOMAIN scope) :
        /\ n = call.name
        /\ scopeAfter[n].url = call.url
        /\ scopeAfter[n].description = call.description

\* C4 as amended (first-write-wins): a merge never changes the url or the
\* description of a record already present in a scope (only found_by may
\* grow); a record's url and description are those of the merge that
\* inserted it into that scope.
C4_FirstWriteWins ==
    [][AddStep =>
        /\ KeepsFields(repos, repos')
        /\ KeepsFields(current_search_repos, current_search_repos')
        /\ InsertsIncoming(repos, repos', lastCall')
        /\ InsertsIncoming(current_search_repos, current_search_repos', lastCall')]_vars

\* C4 witness: an identity already present was merged again, batch-tracked,
\* with another url and description, which both scopes did not take
C4_Witness ==
    /\ lastCall.kind = "add"
    /\ lastCall.is_current_search
    /\ repos[lastCall.name].url # lastCall.url
    /\ repos[lastCall.name].description # lastCall.description
    /\ current_search_repos[lastCall.name].url # lastCall.url

\* C16 (Batch bypass writes only to global): an _add_repository call with
\* is_current_search = False leaves the batch scope unchanged, key set and
\* every field of every record.
C16_BatchBypass ==
    [][(AddStep /\ ~lastCall'.is_current_search) =>
          current_search_repos' = current_search_repos]_vars

\* C20 (Missing description tolerance): a record never holds a null
\* description: a raw item whose description is absent or null is stored
\* with the placeholder "No description".
C20_MissingDescription ==
    /\ \A n \in DOMAIN repos : repos[n].description # None
    /\ \A n \in DOMAIN current_search_repos :
          current_search_repos[n].description # None
    /\ lastCall.kind = "add" => lastCall.description # None

(***************************************************************************)
(* Properties of the executor, checked under SpecReq.                      *)
(***************************************************************************)
\* ceil(a / b)
CeilDiv(a, b) == (a + b - 1) \div b

\* a call that returned from an endpoint holding exactly the items it reports
ReturnedFromMock ==
    /\ pc = "returned"
    /\ lastResp.status = 200
    /\ api.avail = api.total

CarriesRateLimitHeaders(headers) ==
    \/ "X-RateLimit-Remaining" \in DOMAIN headers
    \/ "X-RateLimit-Reset" \in DOMAIN headers

\* a step that issues a request
RequestStep == nreq' = nreq + 1

\* C7 (Forbidden is stall-and-retry): a 403 answer carrying rate-limit
\* headers makes _make_request stall for at least the safety margin and go on
\* with the same page number, the accumulated items and total_count
\* unchanged; it does not return.
C7_ForbiddenStallRetry ==
    [][(RequestStep /\ lastResp'.status = 403
          /\ CarriesRateLimitHeaders(lastResp'.headers)) =>
        /\ pc' = "loop"
        /\ result' = NoResult
        /\ page' = page
        /\ page' = lastReq'.page
        /\ all_items' = all_items
        /\ total_count' = total_count
        /\ now' >= now + safety_margin]_vars

\* C7 witness: a 403 with rate-limit headers arrived after pages had been
\* accumulated, and the call is still fetching
C7_Witness ==
    /\ lastResp.status = 403
    /\ CarriesRateLimitHeaders(lastResp.headers)
    /\ all_items # << >>
    /\ page > 1
    /\ pc = "loop"

\* an answer that is neither a success nor a 403 carrying rate-limit headers
NonQuotaFailure(resp) ==
    \/ resp.status = -1
    \/ /\ resp.status \in ErrorStatuses
       /\ ~(resp.status = 403 /\ CarriesRateLimitHeaders(resp.headers))

\* C8 (Non-quota errors abort only the current query): an HTTP error status
\* that is not a 403 carrying rate-limit headers, or a transport failure,
\* makes _make_request return at once with exactly the items and total_count
\* accumulated before it.
C8_NonQuotaErrorsAbort ==
    [][(RequestStep /\ NonQuotaFailure(lastResp')) =>
        /\ pc' = "returned"
        /\ result' = [kind |-> "dict", items |-> all_items,
                      total_count |-> total_count]]_vars

\* C10 (Result cap): the list _make_request returns has at most max_results
\* items.
C10_ResultCap ==
    result.kind = "dict" => Count(result.items) <= max_results

\* a step that ends in a rate-limit stall
StallStep == stalls' = stalls + 1

\* the reset time a response carries, 0 when the header is absent
ResetOf(resp) ==
    IF "X-RateLimit-Reset" \in DOMAIN resp.headers
    THEN resp.headers["X-RateLimit-Reset"]
    ELSE 0

\* C24 (Stall length formula): every rate-limit stall, after a 200 response
\* with remaining quota <= 1 and after a 403, lasts exactly
\* max(reset_time - now, 0) + 10 seconds: the distance to the reset time plus
\* ten when the reset time lies ahead, ten when it lies in the past or the
\* header is absent; never less than ten.
C24_StallLength ==
    [][StallStep =>
         LET reset == ResetOf(lastResp')
             slept == now' - now
         IN  /\ RequestStep
             /\ lastResp'.status \in {200, 403}
             /\ lastResp'.status = 200 => RateLimited(lastResp'.headers)
             /\ reset > now => slept = reset - now + 10
             /\ reset <= now => slept = 10
             /\ slept >= 10
      ]_vars

\* C24 witness: a 403 whose reset time lies in the past has been answered by
\* a stall of ten seconds
C24_Witness ==
    /\ stalls > 0
    /\ lastResp.status = 403
    /\ "X-RateLimit-Reset" \in DOMAIN lastResp.headers
    /\ lastResp.headers["X-RateLimit-Reset"] < lastReq.at
    /\ now = lastReq.at + 10

\* C25 (Inter-request pacing): a request that is not the first of its
\* _make_request call is issued later than the request before it: exactly the
\* one-second inter-page delay later when it asks for the next page, at least
\* a stall of ten seconds later when it asks for the same page again; it asks
\* for no other page.
C25_InterRequestPacing ==
    [][(RequestStep /\ nreq >= 1) =>
         /\ lastReq'.at > lastReq.at
         /\ \/ /\ lastReq'.page = lastReq.page + 1
               /\ lastResp.status = 200 /\ ~RateLimited(lastResp.headers)
               /\ lastReq'.at = lastReq.at + 1
            \/ /\ lastReq'.page = lastReq.page
               /\ lastResp.status = 403 \/ RateLimited(lastResp.headers)
               /\ lastReq'.at = lastReq.at + WaitTime(lastResp.headers, lastReq.at)
               /\ lastReq'.at >= lastReq.at + 10
      ]_vars

\* C25 witness: the third request of a call has been issued, for page 2,
\* after a retry of page 1 and an advance to page 2
C25_Witness ==
    /\ nreq = 3
    /\ lastReq.page = 2
    /\ stalls = 1

\* C29 (Page sequence): the accumulator holds the items of pages 1, 2, ..., n
\* in that order, each page once and whole, whatever stalls and retries came
\* in between; while the call runs the page asked for next is n + 1, so no
\* page is skipped; and the list returned is the accumulator.
C29_PageSequence ==
    /\ \A i \in 1..Len(all_items) :
          /\ all_items[i].page = i
          /\ all_items[i].n = PageSize(api, i)
          /\ all_items[i].n > 0
    /\ pc = "loop" => page = Len(all_items) + 1
    /\ lastReq # NoReq => lastReq.page \in {Len(all_items), Len(all_items) + 1}
    /\ pc = "returned" => result.items = all_items

\* C29 witness: a call has returned two pages after a stall in between
C29_Witness ==
    /\ pc = "returned"
    /\ Len(result.items) = 2
    /\ stalls = 1
    /\ nreq = 3

\* the response reports remaining quota <= 1, a missing header read as 0
Exhausted(resp) ==
    \/ "X-RateLimit-Remaining" \notin DOMAIN resp.headers
    \/ resp.headers["X-RateLimit-Remaining"] <= 1

\* C30: a 200 response that reports remaining quota <= 1, or carries no
\* remaining-quota header, is not used: the accumulator, total_count and the
\* page number stay as they were and the call stalls; the request after it
\* asks for the same page; and the accumulator grows only on a 200 response
\* whose reported remaining quota is greater than 1.
C30_ExhaustedResponseUnused ==
    [][ /\ (RequestStep /\ lastResp'.status = 200 /\ Exhausted(lastResp')) =>
            /\ all_items' = all_items
            /\ total_count' = total_count
            /\ page' = page
            /\ pc' = "loop"
            /\ StallStep
        /\ (RequestStep /\ nreq >= 1 /\ lastResp.status = 200 /\ Exhausted(lastResp)) =>
            lastReq'.page = lastReq.page
        /\ all_items' # all_items =>
            /\ RequestStep
            /\ lastResp'.status = 200
            /\ "X-RateLimit-Remaining" \in DOMAIN lastResp'.headers
            /\ lastResp'.headers["X-RateLimit-Remaining"] > 1
      ]_vars

\* C30 witness: page 1 is in the accumulator and a 200 response for page 2
\* without a remaining-quota header has been answered by a stall
C30_Witness ==
    /\ pc = "loop"
    /\ lastResp.status = 200
    /\ "X-RateLimit-Remaining" \notin DOMAIN lastResp.headers
    /\ lastReq.page = 2
    /\ page = 2
    /\ Len(all_items) = 1
    /\ stalls = 1

(***************************************************************************)
(* Properties of the driver, checked under SpecDrv.                        *)
(***************************************************************************)
\* C6 (Rate-limit stall): once a response has reported remaining quota <= 1
\* with reset time R, no request is issued before R plus the safety margin,
\* within the query or in a later query of the run: every request is issued
\* at a time at or after the end of every stall asked for before it.
C6_RateLimitStall ==
    lastReq.at >= lastReq.quiet

IsPrefix(s, t) == Len(s) <= Len(t) /\ s = SubSeq(t, 1, Len(s))

\* a step of the run other than the merge of an item
ControlStep ==
    \/ MainNoToken
    \/ MainStart
    \/ StartQuery
    \/ Fetch200Page
    \/ Fetch200Exhausted
    \/ Fetch403
    \/ FetchHttpError
    \/ FetchTransportError
    \/ TakeResult
    \/ EndQuery
    \/ FlushBatch
    \/ ClearBatch
    \/ SaveResults

\* items of the result in hand remain to be merged
MergePending == pc = "merge" /\ cursor <= Count(result.items)

\* C9 (The driver always proceeds): whatever the outcomes of the queries, the
\* queries started so far are an initial part of the fixed enumeration, each
\* started once; the query about to start is the next of the enumeration; the
\* batches flushed so far are an initial part of the passes; before main
\* returns the run is never stuck (an item remains to be merged or a further
\* step is possible); and a run with a token ends with every query started,
\* every batch flushed and the global flush made once.
C9_DriverProceeds ==
    /\ IsPrefix(started, Plan)
    /\ IsPrefix(flushes, Passes)
    /\ pc = "query" => /\ Len(started) < Len(Plan)
                       /\ pos = Plan[Len(started) + 1]
    /\ pc \in {"loop", "returned", "merge"} => pos = started[Len(started)]
    /\ pc \in {"flush", "clear"} =>
          /\ Len(flushes) + (IF pc = "clear" THEN 0 ELSE 1) = pos.pass
          /\ started[Len(started)] = pos
          /\ LastOfPass(pos)
    /\ pc # "done" => MergePending \/ ENABLED ControlStep
    /\ pc = "save" => started = Plan /\ flushes = Passes /\ saved = 0
    /\ (pc = "done" /\ token) => started = Plan /\ flushes = Passes /\ saved = 1

\* C9 witness: a run in which a query was aborted on an HTTP error and one on
\* a transport failure has ended with every query started and all flushes made
C9_Witness ==
    /\ pc = "done"
    /\ token
    /\ aborts = {"http", "transport"}
    /\ started = Plan
    /\ flushes = Passes
    /\ saved = 1

\* C15 (Missing credential is startup-fatal): in a run without GITHUB_TOKEN
\* main is either about to make the check or has returned; no query is ever
\* started, no request issued, no record merged, no batch or global catalog
\* written; and once main has returned nothing further happens.
C15_MissingCredentialFatal ==
    ~token =>
        /\ pc \in {"main", "done"}
        /\ started = << >>
        /\ nreq = 0 /\ lastReq = NoReq
        /\ ncalls = 0 /\ repos = << >> /\ current_search_repos = << >>
        /\ flushes = << >> /\ saved = 0
        /\ pc = "done" => ~MergePending /\ ~ENABLED ControlStep

\* C15 witness: main has returned for want of a token
C15_Witness == ~token /\ pc = "done"

\* the tags of the queries of pass p
PassTags(p) == {QueryTag(PlanOfPass(p)[i]) : i \in DOMAIN PlanOfPass(p)}

\* the passes whose last query has ended and whose flush is due or done
PassesOver ==
    {started[i].pass : i \in DOMAIN started}
        \ (IF pc \in {"clear", "save", "done"} THEN {} ELSE {pos.pass})

\* C17 (Batch pass protocol): the batch scope is empty when a pass begins;
\* its records carry only tags of the current pass; once a pass's last query
\* has ended its batch is flushed exactly once (one _save_search_results call
\* per finished pass, none twice) and cleared before the next pass and before
\* the global flush.
C17_BatchPassProtocol ==
    /\ (pc = "query" /\ pos = FirstPos(pos.pass)) => current_search_repos = << >>
    /\ pc \in {"save", "done"} => current_search_repos = << >>
    /\ \A n \in DOMAIN current_search_repos :
          TagSet(current_search_repos[n].found_by) \subseteq PassTags(pos.pass)
    /\ Len(flushes) = Cardinality(PassesOver)
    /\ \A i, j \in DOMAIN flushes : i # j => flushes[i] # flushes[j]

\* C18 (Global flush once at the end): save_results is called at most once;
\* it has been called exactly when a run with a token has returned; by then
\* every query of the run has been started and has ended and every batch has
\* been flushed; and after it nothing happens any more, in particular no
\* merge into the global scope.
C18_GlobalFlushOnce ==
    /\ saved \in {0, 1}
    /\ saved = 1 <=> (pc = "done" /\ token)
    /\ saved = 1 => /\ started = Plan
                    /\ flushes = Passes
                    /\ result = NoResult
                    /\ ~MergePending
                    /\ ~ENABLED ControlStep

\* C18 witness: the run has ended with records in the global scope, flushed
\* once, after all five batch flushes
C18_Witness ==
    /\ saved = 1
    /\ Len(flushes) = 5
    /\ repos # << >>

\* C19 (Append/update-only global scope): no step of a run (request, merge,
\* batch flush, batch clear, global flush) removes a key from the global
\* scope, and the found_by of every global record before the step is a prefix
\* of its found_by after the step.
C19_AppendOnlyGlobal ==
    [][\A n \in DOMAIN repos :
          /\ n \in DOMAIN repos'
          /\ IsPrefix(repos[n].found_by, repos'[n].found_by)]_vars

\* C19 witness: after a batch flush, a record of the global scope holds a
\* second tag, appended to the one it was created with
C19_Witness ==
    /\ flushes # << >>
    /\ \E n \in DOMAIN repos : Len(Split(repos[n].found_by)) >= 2

\* main runs in one thread of an interpreter that does not pause: a statement
\* that can run does run.  Weak fairness of the control steps and of the merge
\* of an item; MergePending is the enabling condition of MergeItem, so the
\* last conjunct is WF_vars(MergeItem) with its ENABLED written out.
SpecDrvFair ==
    /\ InitDrv
    /\ [][NextDrv]_vars
    /\ WF_vars(ControlStep)
    /\ (<>[]MergePending => []<><<MergeItem>>_vars)

\* C21 (Termination): when every rate-limit signal is eventually followed by
\* a response with quota available (the API inflicts at most MaxStalls
\* stalls), every _make_request call returns and main reaches its return,
\* after save_results in a run with a token.
C21_Termination ==
    /\ (pc = "loop") ~> (pc = "returned")
    /\ <>(pc = "done" /\ (token => saved = 1))

\* C21 witness: main has returned after a run in which a stall was inflicted
\* and a query was aborted
C21_Witness ==
    /\ pc = "done"
    /\ saved = 1
    /\ stalls > 0
    /\ aborts # {}

\* a step that starts a query
QueryStartStep == Len(started') = Len(started) + 1

\* a step that puts a record or a tag into a scope
ScopeGainStep ==
    \/ \E n \in DOMAIN repos' :
           n \notin DOMAIN repos \/ repos'[n] # repos[n]
    \/ \E n \in DOMAIN current_search_repos' :
           \/ n \notin DOMAIN current_search_repos
           \/ current_search_repos'[n] # current_search_repos[n]

\* C22 (Queries are drained one at a time): a request is issued only inside
\* the _make_request call of the query started last, before that call has
\* returned; a query starts only when no call is in progress and the result
\* of the query before it has been consumed to its end; and a scope gains a
\* record or a tag only from an item of the result that the returned call
\* handed over, with no request issued by that step.
C22_OneQueryAtATime ==
    [][ /\ RequestStep =>
            /\ pc = "loop"
            /\ api # NoApi
            /\ result = NoResult
            /\ started # << >> /\ started[Len(started)] = pos
        /\ QueryStartStep =>
            /\ pc = "query"
            /\ api = NoApi
            /\ result = NoResult
            /\ cursor = 0
            /\ nreq' = 0
        /\ ScopeGainStep =>
            /\ pc = "merge"
            /\ result # NoResult
            /\ cursor \in 1..Count(result.items)
            /\ nreq' = nreq /\ nreq = 0
      ]_vars

\* C22 witness: the second query's call has returned two items after its
\* page requests and both have been merged into the batch scope
C22_Witness ==
    /\ Len(started) >= 2
    /\ pc = "merge"
    /\ Count(result.items) = 2
    /\ cursor = 3
    /\ DOMAIN current_search_repos # {}

\* a step during which the run sleeps
SleepStep == now' # now

\* the sleep of line 68: after a page that does not end the call
InterPageDelay ==
    /\ pc = "loop" /\ pc' = "loop"
    /\ page' = page + 1
    /\ now' = now + page_delay

\* the sleep of lines 32 and 74: after a rate-limit signal
RateLimitStall ==
    /\ pc = "loop" /\ pc' = "loop"
    /\ RequestStep
    /\ page' = page
    /\ stalls' = stalls + 1
    /\ RateLimited(lastResp'.headers) \/ lastResp'.status = 403
    /\ now' = now + WaitTime(lastResp'.headers, now)

\* the sleep of lines 290 and 318: after the merge loop of a window of the
\* description search or of a file of the file search
AfterQueryDelay ==
    /\ pc = "merge" /\ pc' \in {"query", "flush"}
    /\ pos.pass \in {1, 5}
    /\ cursor > Count(result.items)
    /\ now' = now + 1

\* C23 (Only two suspension points): every sleep of the run is the
\* inter-page delay of _make_request or a rate-limit stall.
C23_TwoSuspensionPoints ==
    [][SleepStep => InterPageDelay \/ RateLimitStall]_vars

\* C23 as the code has it: every sleep of the run is the inter-page delay, a
\* rate-limit stall, or the one-second delay that search_repositories_by_
\* description makes after each window and search_firebase_files after each
\* file; search_code, search_commits and search_issues end a query without
\* sleeping.
C23_ThreeSuspensionPoints ==
    [][ /\ SleepStep => InterPageDelay \/ RateLimitStall \/ AfterQueryDelay
        /\ (pc = "merge" /\ pc' # "merge" /\ pos.pass \in {2, 3, 4}) => ~SleepStep
        /\ (pc = "merge" /\ pc' # "merge" /\ pos.pass \in {1, 5}) => AfterQueryDelay
      ]_vars

\* C23 witness: the first window's call made one request, no stall occurred,
\* and the clock stands one second later when the second query is to start
C23_Witness ==
    /\ pc = "query"
    /\ Len(started) = 1
    /\ stalls = 0
    /\ served <= 1
    /\ now = StartTime + 1

\* C27 (The executor mutates nothing elsewhere): every step of a
\* _make_request call, whatever the response, leaves repos and
\* current_search_repos as they were, so between the start of a call and its
\* return the catalog state does not change.
C27_ExecutorTouchesNoScope ==
    [][(pc = "loop" \/ RequestStep) =>
         /\ repos' = repos
         /\ current_search_repos' = current_search_repos
      ]_vars

\* C27 witness: a call that made two requests has returned while both scopes
\* held records
C27_Witness ==
    /\ pc = "returned"
    /\ nreq >= 2
    /\ DOMAIN repos # {}
    /\ DOMAIN current_search_repos # {}

\* the call returns what it had fetched, also when an error ends it
ReturnsFetched ==
    (pc = "loop" /\ pc' = "returned") =>
        /\ result'.items = all_items'
        /\ lastResp'.status # 200 => all_items' = all_items

\* the loop over data['items'] starts at the first item of the result
StartsAtFirst ==
    (pc = "returned" /\ pc' = "merge") => cursor' = 1 /\ result' = result

\* the loop ends behind the last item
EndsBehindLast ==
    (pc = "merge" /\ pc' # "merge") => cursor = Count(result.items) + 1

\* the item at the cursor is passed to _add_repository with the query's tag
FedToAggregator ==
    LET arg == MergeArg(pos.pass, ItemOf(pos.pass, cursor))
    IN  /\ ncalls' = ncalls + 1
        /\ lastCall'.name = Unwrap(arg).full_name
        /\ lastCall'.url = Unwrap(arg).html_url
        /\ lastCall'.found_by = QueryTag(pos)
        /\ lastCall'.is_current_search
        /\ QueryTag(pos) \in applied'[Unwrap(arg).full_name]

\* C31 as stated: every item of the result of a call, aborted or not, is
\* passed to _add_repository once, in fetch order, with the query's tag.
C31_EveryItemFed ==
    [][ /\ ReturnsFetched
        /\ StartsAtFirst
        /\ EndsBehindLast
        /\ (pc = "merge" /\ pc' = "merge") =>
              /\ cursor \in 1..Count(result.items)
              /\ cursor' = cursor + 1
              /\ result' = result
              /\ FedToAggregator
      ]_vars

\* C31 as the code has it: every item of the result of a call, aborted or
\* not, is taken once and in fetch order; it is passed to _add_repository
\* with the query's tag, except for an item of search_issues whose
\* repository_url has fewer than five segments, which is passed over with no
\* call and no change of a scope.
C31_EveryItemTaken ==
    [][ /\ ReturnsFetched
        /\ StartsAtFirst
        /\ EndsBehindLast
        /\ (pc = "merge" /\ pc' = "merge") =>
              /\ cursor \in 1..Count(result.items)
              /\ cursor' = cursor + 1
              /\ result' = result
              /\ IF pos.pass = 4
                     /\ Len(SplitOn(ItemOf(4, cursor).repository_url, <<"/">>)) < 5
                 THEN /\ ncalls' = ncalls
                      /\ repos' = repos
                      /\ current_search_repos' = current_search_repos
                 ELSE FedToAggregator
      ]_vars

\* C31 witness: the first query was ended by an error after its first page;
\* the item of that page has been merged into both scopes under the query's
\* tag, and the loop has ended
C31_Witness ==
    /\ pc = "merge"
    /\ Len(started) = 1
    /\ aborts # {}
    /\ api.total = 2
    /\ Count(result.items) = 1
    /\ cursor = 2
    /\ ncalls = 1
    /\ lastCall.found_by = QueryTag(pos)
    /\ lastCall.name \in DOMAIN current_search_repos
    /\ lastCall.name \in DOMAIN repos

\* a merge of an identity that the global scope holds and the batch scope
\* does not
MergeAfterClearStep ==
    /\ ncalls' = ncalls + 1
    /\ lastCall'.name \notin DOMAIN current_search_repos
    /\ lastCall'.name \in DOMAIN repos

\* C32 (Clearing the batch scope leaves the global scope unchanged):
\* current_search_repos.clear() empties the batch scope and leaves the global
\* scope with the same keys and the same url, description and found_by in
\* every record, also for records that one merge put into both scopes; and a
\* later merge of an identity the global scope still holds puts a fresh
\* record with only the new tag into the batch scope, while the global record
\* keeps its url and description and its found_by stays or gains the tag.
C32_ClearKeepsGlobal ==
    [][ /\ (pc = "clear" /\ pc' # "clear") =>
              /\ current_search_repos' = << >>
              /\ repos' = repos
        /\ MergeAfterClearStep =>
              LET n == lastCall'.name
              IN  /\ current_search_repos'[n] =
                        [url |-> lastCall'.url,
                         description |-> lastCall'.description,
                         found_by |-> QueryTag(pos)]
                  /\ DOMAIN repos' = DOMAIN repos
                  /\ repos'[n].url = repos[n].url
                  /\ repos'[n].description = repos[n].description
                  /\ repos'[n].found_by \in
                        {repos[n].found_by,
                         repos[n].found_by \o Sep \o QueryTag(pos)}
      ]_vars

\* C32 witness: a repository found in the first pass, and so put into both
\* scopes by one merge, has been found again after the batch was cleared:
\* the batch record holds the new tag alone, the global record both tags
C32_Witness ==
    /\ flushes # << >>
    /\ pos.pass = 2
    /\ pc = "merge"
    /\ Widget \in DOMAIN current_search_repos
    /\ current_search_repos[Widget].found_by = QueryTag(pos)
    /\ Widget \in DOMAIN repos
    /\ Len(Split(repos[Widget].found_by)) = 2
    /\ Split(repos[Widget].found_by)[1] = QueryTag(FirstPos(1))
    /\ Split(repos[Widget].found_by)[2] = QueryTag(pos)

(***************************************************************************)
(* Properties of the catalog writers, checked under SpecSave.              *)
(***************************************************************************)
\* a step that writes a catalog file
WriteStep == csvfile' # csvfile

\* C26 (Catalog writer): a write of a scope puts out exactly one row per
\* record of that scope, no identity twice; every row has the columns name,
\* url, description, found_by, holding the identity and the record's fields;
\* the CSV header is those columns; the rows are in non-decreasing order of
\* the found_by string; and the write leaves both scopes unchanged.
C26_CatalogWriter ==
    [][WriteStep =>
         LET file == csvfile'
             scope == IF file.scope = "repos" THEN repos ELSE current_search_repos
             rows == file.rows
         IN  /\ Len(rows) = Cardinality(DOMAIN scope)
             /\ {rows[i][1] : i \in DOMAIN rows} = DOMAIN scope
             /\ \A i, j \in DOMAIN rows : i # j => rows[i][1] # rows[j][1]
             /\ \A i \in DOMAIN rows :
                   /\ Len(rows[i]) = 4
                   /\ rows[i][2] = scope[rows[i][1]].url
                   /\ rows[i][3] \in {scope[rows[i][1]].description, ""}
                   /\ rows[i][4] = scope[rows[i][1]].found_by
             /\ (file.writer = "csv" \/ rows # << >>) =>
                   file.header = <<"name", "url", "description", "found_by">>
             /\ \A i, j \in DOMAIN rows :
                   i < j => StrLE(rows[i][4], rows[j][4])
             /\ repos' = repos
             /\ current_search_repos' = current_search_repos
      ]_vars

\* C26 witness: a CSV file of two rows has been written whose found_by
\* strings differ, the second one joined from two tags
C26_Witness ==
    /\ csvfile # NoFile
    /\ csvfile.writer = "csv"
    /\ Len(csvfile.rows) = 2
    /\ csvfile.rows[1][4] # csvfile.rows[2][4]
    /\ Len(Split(csvfile.rows[2][4])) = 2

(***************************************************************************)
(* Properties of process_csv_files, checked under SpecMerge.               *)
(***************************************************************************)
\* a step that takes a row from the reader
RowStep == merger'.pc = "rows" /\ merger.pc = "rows" /\ merger'.nrows = merger.nrows + 1

\* the row has no name column, or nothing in it
Nameless(row) ==
    \/ "name" \notin DOMAIN row
    \/ row["name"] = << >>
    \/ row["name"] = NoneCell

\* C28 (Rows without identity are skipped): a row whose name field is
\* missing or empty creates no record and changes none: repo_data and the
\* output columns stay as they were, nothing is written, and the loop stands
\* where it stands after any other row, in the same file with the next row
\* to read, so the remaining rows and files are processed as before.
C28_NamelessRowSkipped ==
    [][\A row \in CsvRows(merger.header) :
         (RowStep /\ merger'.lastRow = row /\ Nameless(row)) =>
                /\ merger'.repo_data = merger.repo_data
                /\ merger'.fieldnames = merger.fieldnames
                /\ merger'.nfiles = merger.nfiles
                /\ merger'.header = merger.header
                /\ merger'.outcome = "skipped"
                /\ csvfile' = csvfile
      ]_vars

\* C28 witness: after a nameless row was skipped, a row read from the second
\* file has created the only record there is
C28_Witness ==
    /\ merger.pc = "rows"
    /\ merger.skipped >= 1
    /\ merger.nfiles = 2
    /\ merger.nrows >= 2
    /\ merger.lastRow # NoRow
    /\ HasName(merger.lastRow)
    /\ merger.outcome = "created"
    /\ Cardinality(DOMAIN merger.repo_data) = 1

\* the tags joined in a found_by text; the empty text joins none
TagsOf(text) == IF text = << >> THEN {} ELSE TagSet(text)

\* the tags a row brings
TagsOfRow(row) ==
    IF "found_by" \in DOMAIN row THEN TagsOf(row["found_by"]) \ {<< >>} ELSE {}

\* the tags of the rows read so far under the name, as the record holds them
TagsSoFar(data, n) ==
    IF n \in DOMAIN data /\ "found_by" \in DOMAIN data[n]
    THEN TagsOf(data[n].found_by)
    ELSE {}

\* C33 (CSV merge deduplication): repo_data, which is written out one row
\* per key, holds exactly one record per distinct non-empty name read; each
\* row read under a name leaves that record with a found_by that is the
\* ", "-join of the tags it held and the tags of the row, no tag twice and
\* none empty, and with the other fields of this row, the last one read under
\* the name; the records of other names stay as they are; a row without a
\* name changes nothing.
C33_MergeDedup ==
    [][ /\ \A row \in CsvRows(merger.header) :
              (RowStep /\ merger'.lastRow = row) =>
                 IF ~HasName(row) THEN merger'.repo_data = merger.repo_data
                 ELSE LET n == row["name"]
                          old == merger.repo_data
                          new == merger'.repo_data
                      IN  /\ DOMAIN new = DOMAIN old \cup {n}
                          /\ \A m \in DOMAIN old \ {n} : new[m] = old[m]
                          /\ IF "found_by" \notin DOMAIN new[n] THEN FALSE
                             ELSE /\ TagsOf(new[n].found_by) =
                                        TagsSoFar(old, n) \cup TagsOfRow(row)
                                  /\ << >> \notin TagsOf(new[n].found_by)
                                  /\ Len(Split(new[n].found_by)) =
                                        Cardinality(TagSet(new[n].found_by))
                          /\ \A f \in DOMAIN new[n] \ {"found_by"} :
                                new[n][f] = Get(row, f, << >>)
        /\ (merger.pc = "files" /\ merger'.pc = "returned" /\ csvfile' # csvfile) =>
              /\ Len(csvfile'.rows) = Cardinality(DOMAIN merger.repo_data)
              /\ \A n \in DOMAIN merger.repo_data :
                    \E i \in DOMAIN csvfile'.rows :
                       csvfile'.rows[i] =
                          MergedLine(merger.repo_data[n], merger.fieldnames)
      ]_vars

(***************************************************************************)
(* Properties of the statistics pass, checked under SpecStats.             *)
(***************************************************************************)
\* a step of the loop of lines 229-236
StatsLoopStep == filt.pc = "loop" /\ filt.i < Len(filt.urls) /\ filt' # filt

\* C34: whatever get_github_stats meets for the URL of a filtered row, the
\* loop records exactly one stats entry and exactly one status code for
\* the row and goes on to the next row, so both lists are as long as the
\* rows handled
C34_RowsAligned ==
    [][StatsLoopStep =>
          /\ filt'.pc = "loop"
          /\ filt'.i = filt.i + 1
          /\ Len(filt'.stats_data) = Len(filt.stats_data) + 1
          /\ Len(filt'.status_codes) = Len(filt.status_codes) + 1]_vars


(***************************************************************************)
(* Properties of the search methods, checked under SpecSearch.             *)
(***************************************************************************)
\* C11 (End-to-end deduplication across modalities): after any sequence of
\* search_* calls the global scope holds a record for exactly the identities
\* among the returned items, and the provenance of each record (the ", "
\* components of found_by) is exactly the set of tags of the queries that
\* returned that identity.
C11_EndToEndDedup ==
    /\ DOMAIN repos = {n \in Names : applied[n] # {}}
    /\ \A n \in DOMAIN repos : TagSet(repos[n].found_by) = applied[n]

\* a step that is a search_issues call
IssueCallStep ==
    /\ Len(started') = Len(started) + 1
    /\ started'[Len(started')].method = 4

\* the number of path segments of a URL
Segments(url) == Cardinality({i \in 1..Len(url) : url[i] = "/"}) + 1

\* the items of a list whose repository_url has at least 5 segments
LongEnough(items) == SelectSeq(items, LAMBDA item : Segments(item.repository_url) >= 5)

\* C13 (Malformed URL tolerance): a search_issues call always completes, and
\* it leaves both scopes as if every item whose repository_url has fewer than
\* 5 path segments were absent from its result lists: such an item creates or
\* updates no record, makes no _add_repository call, and the items after it in
\* the same list are processed.
C13_MalformedUrlTolerance ==
    [][IssueCallStep =>
        LET call == started'[Len(started')]
            kept == [i \in DOMAIN call.datas |-> LongEnough(call.datas[i])]
        IN  /\ Scopes' = MergeWindows(Scopes, 4, call.query, kept, 1, TRUE)
            /\ ncalls' = ncalls + Len(kept[1]) + Len(kept[2])
            /\ DOMAIN repos' \subseteq Names
            /\ DOMAIN current_search_repos' \subseteq Names]_vars

\* C13 witness: a search_issues call whose first list held a three-segment
\* URL followed by acme/widget's URL has recorded acme/widget, nothing else
C13_Witness ==
    /\ started # << >>
    /\ started[Len(started)].method = 4
    /\ started[Len(started)].datas[1]
          = <<[repository_url |-> ShortUrl], [repository_url |-> ApiUrl(Widget)]>>
    /\ DOMAIN repos = {Widget}
    /\ ncalls = 1

\* C14 (Issue-search identity extraction): for every item of a search_issues
\* result whose repository_url is .../repos/<owner>/<name>, the call merges a
\* record under the identity <owner>/<name> (the full_name the other
\* modalities report) with the window's issue tag, in both scopes; a record
\* the call creates has the url https://github.com/<owner>/<name> and the
\* description "".
C14_IssueIdentity ==
    [][IssueCallStep =>
        LET call == started'[Len(started')]
        IN  \A i \in DOMAIN call.datas : \A k \in 1..Len(call.datas[i]) :
              \A n \in Names :
                call.datas[i][k].repository_url = ApiUrl(n) =>
                    /\ n \in DOMAIN repos'
                    /\ n \in DOMAIN current_search_repos'
                    /\ IssueTag(call.query, time_ranges[i]) \in applied'[n]
                    /\ n \notin DOMAIN repos =>
                          /\ repos'[n].url = Url1(n)
                          /\ repos'[n].description = ""]_vars

\* C14 witness: a search_issues call that returned acme/gizmo's URL has
\* created the record acme/gizmo that a description search would have
C14_Witness ==
    /\ Len(started) = 1
    /\ started[1].method = 4
    /\ started[1].datas[2] = <<[repository_url |-> ApiUrl(Gizmo)]>>
    /\ Gizmo \in DOMAIN repos
    /\ repos[Gizmo].url = Corpus[2].html_url
    /\ Corpus[2].full_name = Gizmo

(***************************************************************************)
(* Properties of the time windows, checked under SpecWin.                  *)
(***************************************************************************)
\* the windows of the list that hold day d
Holding(R, d) == {i \in 1..Len(R) : DateLE(R[i][1], d) /\ DateLE(d, R[i][2])}

\* C12 (Window coverage): in each time_ranges list every window has valid
\* dates with start <= end, each window starts on the calendar day after the
\* previous window's end, every end that closes a month (the next window
\* starts on the 1st, or the list ends) is the true last day of that month,
\* and every day from the first start to the last end lies in exactly one
\* window, the one the loop is at.
C12_WindowCoverage ==
    walk.ranges # "none" =>
        LET R == Ranges[walk.ranges]
        IN  /\ \A i \in 1..Len(R) :
                  /\ ValidDate(R[i][1])
                  /\ ValidDate(R[i][2])
                  /\ DateLE(R[i][1], R[i][2])
                  /\ (i = Len(R) \/ R[i + 1][1][3] = 1) =>
                        R[i][2][3] = DaysIn(R[i][2][1], R[i][2][2])
            /\ \A i \in 1..(Len(R) - 1) : R[i + 1][1] = NextDay(R[i][2])
            /\ DateLE(R[1][1], walk.day)
            /\ DateLE(walk.day, R[Len(R)][2])
            /\ Holding(R, walk.day) = {walk.window}

\* C12 witness: the walk through firebase's issue windows has passed the
\* leap day, which ended its window, and has reached the last end
C12_Witness ==
    /\ walk.ranges = "firebase_issues"
    /\ walk.window = Len(firebase_issue_time_ranges)
    /\ walk.day = firebase_issue_time_ranges[Len(firebase_issue_time_ranges)][2]
    /\ \E i \in 1..Len(firebase_issue_time_ranges) :
          firebase_issue_time_ranges[i][2] = <<2024, 2, 29>>

====
